---------------------------- MODULE Spec2Model ----------------------------
(***************************************************************************)
(* Recurrence resolution and schedule materialization of the weekly        *)
(* planner (src/app.py): should_show_activity_on_date,                     *)
(* calculate_activity_end_time, get_minimum_day_end_time,                  *)
(* _load_school_events_cached, create_weekly_schedule and                  *)
(* display_day_activities.                                                 *)
(*                                                                         *)
(* Encoding of Python values                                               *)
(*   date          its proleptic Gregorian ordinal (date.toordinal());     *)
(*                 None is NoDate (ordinals start at 1)                    *)
(*   time string   the sequence of its colon separated numbers,            *)
(*                 '10:00:00' is <<10, 0, 0>>, '25:00' is <<25, 0>>        *)
(*   'HH:MM'       the pair <<h, m>>                                       *)
(*   duration      [numeric, hundredths]: 1.5 is [TRUE, 150]; a value      *)
(*                 float() rejects has numeric = FALSE                     *)
(*   days_of_week  [list, items]: a value that is no list has list = FALSE *)
(*                 an item that is no str is the token NotAString          *)
(*   None / NaN    the token NoneVal where a string is expected            *)
(***************************************************************************)
EXTENDS Integers, Sequences, FiniteSets, TLC

VARIABLES
    df,                             \* the activity table handed to the views
    school_file,                    \* DATA_CONFIG['school_events_file'] on disk
    school_events_cache,            \* _school_events_cache
    school_events_cache_timestamp,  \* _school_events_cache_timestamp
    ret                             \* the call in progress and what it returned

vars == <<df, school_file, school_events_cache, school_events_cache_timestamp, ret>>

----------------------------------------------------------------------------
(* Bounds of the model *)

MaxRecords == 2     \* longest activity table
NumDays == 21       \* length of the January window of dates
MaxMtime == 2       \* number of versions the school events file goes through
MaxMergeRecords == 3    \* longest table of records that meet on one day
MaxSheetRows == 2       \* longest table of the activities sheet

\* the last mtime the writer that runs beside the loader gives the file
MaxRaceMtime == 3

----------------------------------------------------------------------------
(* Python values *)

NoDate == 0
NoneVal == "<None>"
NotAString == "<5>"
NoTimestamp == 0

IsStr(x) == x # NotAString /\ x # NoneVal

\* str.lower() on the strings the model uses
Lower(s) ==
    CASE s = "Monday" -> "monday"
      [] s = "MONDAY" -> "monday"
      [] s = "Wednesday" -> "wednesday"
      [] s = "Friday" -> "friday"
      [] s = "Sunday" -> "sunday"
      [] s = "Bi-Weekly" -> "bi-weekly"
      [] s = "Weekly" -> "weekly"
      [] s = "School" -> "school"
      [] s = "SCHOOL" -> "school"
      [] s = "Family" -> "family"
      [] s = "Jewish" -> "jewish"
      [] s = "Minimum Day" -> "minimum day"
      [] s = "MINIMUM DAY - Early Release" -> "minimum day - early release"
      [] s = "Picture Day" -> "picture day"
      [] s = "Soccer" -> "soccer"
      [] s = "Piano" -> "piano"
      [] s = "School: Picnic" -> "school: picnic"
      [] s = "school: Picnic" -> "school: picnic"
      [] s = "Jewish: Purim" -> "jewish: purim"
      [] s = "JEWISH: Purim" -> "jewish: purim"
      [] s = "Picnic" -> "picnic"
      [] s = "Purim" -> "purim"
      [] OTHER -> s

\* s[0].upper(); the empty string has no first character
HasFirst(s) == s # ""
FirstUpper(s) ==
    CASE s = "Ariella" -> "A"
      [] s = "Anna" -> "A"
      [] s = "Ben" -> "B"
      [] s = "Dana" -> "D"
      [] s = "Test Kid" -> "T"
      [] s = "monday" -> "M"
      [] s = "Monday" -> "M"
      [] s = "MONDAY" -> "M"
      [] s = "tuesday" -> "T"
      [] s = "wednesday" -> "W"
      [] s = "Wednesday" -> "W"
      [] s = "thursday" -> "T"
      [] s = "friday" -> "F"
      [] s = "Friday" -> "F"
      [] s = "saturday" -> "S"
      [] s = "sunday" -> "S"
      [] s = "Sunday" -> "S"
      [] s = "funday" -> "F"
      [] OTHER -> "?"

----------------------------------------------------------------------------
(* Calendar *)

IsLeap(y) == (y % 4 = 0 /\ y % 100 # 0) \/ y % 400 = 0

DaysBeforeYear(y) == (y - 1) * 365 + (y - 1) \div 4 - (y - 1) \div 100 + (y - 1) \div 400

DaysInMonth(y, m) ==
    IF m = 2 THEN (IF IsLeap(y) THEN 29 ELSE 28)
    ELSE IF m \in {4, 6, 9, 11} THEN 30 ELSE 31

RECURSIVE DaysBeforeMonth(_, _)
DaysBeforeMonth(y, m) == IF m = 1 THEN 0 ELSE DaysBeforeMonth(y, m - 1) + DaysInMonth(y, m - 1)

\* date(y, m, d).toordinal()
Date(y, m, d) == DaysBeforeYear(y) + DaysBeforeMonth(y, m) + d

\* date.weekday(): Monday = 0 .. Sunday = 6
Weekday(d) == (d - 1) % 7

\* the list literal of create_weekly_schedule
DAY_NAMES == <<"monday", "tuesday", "wednesday", "thursday", "friday", "saturday", "sunday">>

\* DayIndex with the week list starting on Sunday
DayIndex_SundayFirst(name) ==
    LET names == <<"sunday", "monday", "tuesday", "wednesday", "thursday", "friday", "saturday">>
    IN  IF \E i \in 1..7 : names[i] = name
        THEN (CHOOSE i \in 1..7 : names[i] = name) - 1
        ELSE -1

\* ['monday', ...].index(name): 0-based position, -1 stands for ValueError
DayIndex(name) ==
    IF \E i \in 1..7 : DAY_NAMES[i] = name
    THEN (CHOOSE i \in 1..7 : DAY_NAMES[i] = name) - 1
    ELSE -1

\* target_date.strftime('%A').lower()
DayNameOf(d) == DAY_NAMES[Weekday(d) + 1]

\* get_week_dates
get_week_dates(selected_date) ==
    LET monday == selected_date - Weekday(selected_date)
    IN  <<monday, monday + 6>>


----------------------------------------------------------------------------
(* Recurrence predicate *)

is_activity_active_in_week(activity_start, activity_end, week_start, week_end) ==
    (activity_start <= week_end) /\ (activity_end >= week_start)

\* activity['days_of_week'] if isinstance(activity['days_of_week'], list) else []
DaysList(activity) ==
    IF activity.days_of_week.list THEN activity.days_of_week.items ELSE << >>

SeqRange(s) == {s[i] : i \in 1..Len(s)}

\* Monday of the week containing d: d - timedelta(days=d.weekday())
MondayOf(d) == d - Weekday(d)

\* BiWeeklyShown counting the weeks from start_date itself, not from the
\* Monday of its week
BiWeeklyShown_FromStartDate(start_date, target_date) ==
    LET days_since_start == target_date - start_date
    IN  IF days_since_start < 0 THEN FALSE
        ELSE (days_since_start \div 7) % 2 = 0

\* the bi-weekly branch: TRUE when the week of target_date is an even week
\* counted from the week of start_date
BiWeeklyShown(start_date, target_date) ==
    LET start_date_monday == MondayOf(start_date)
        target_date_monday == MondayOf(target_date)
        days_since_start_monday == target_date_monday - start_date_monday
        week_number == days_since_start_monday \div 7
    IN  IF days_since_start_monday < 0 THEN FALSE
        ELSE week_number % 2 = 0

\* DateRangeCheck without the comparison with end_date
DateRangeCheck_NoEnd(activity, target_date) ==
    IF activity.start_date = NoDate THEN "raise"
    ELSE IF ~(activity.start_date <= target_date) THEN "False"
    ELSE "ok"

\* the date range check: a None date compared with a date raises TypeError;
\* the chained comparison stops at the first comparison that is false
DateRangeCheck(activity, target_date) ==
    IF activity.start_date = NoDate THEN "raise"
    ELSE IF ~(activity.start_date <= target_date) THEN "False"
    ELSE IF activity.end_date = NoDate THEN "raise"
    ELSE IF ~(target_date <= activity.end_date) THEN "False"
    ELSE "ok"

\* DayCheck that only asks for a list that is not empty
DayCheck_AnyDay(activity, day_name) ==
    LET days == DaysList(activity)
    IN  IF \E i \in 1..Len(days) : ~IsStr(days[i]) THEN "raise"
        ELSE IF Len(days) = 0 THEN "False"
        ELSE "ok"

\* day_name not in [d.lower() for d in days]: an item that is no str has no
\* lower() and raises AttributeError
DayCheck(activity, day_name) ==
    LET days == DaysList(activity)
    IN  IF \E i \in 1..Len(days) : ~IsStr(days[i]) THEN "raise"
        ELSE IF day_name \notin {Lower(days[i]) : i \in 1..Len(days)} THEN "False"
        ELSE "ok"

\* activity.get('frequency', '').lower() and the bi-weekly filter; a None
\* frequency has no lower()
FrequencyCheck(activity, target_date) ==
    IF activity.frequency = NoneVal THEN "raise"
    ELSE IF Lower(activity.frequency) = "bi-weekly"
            /\ ~BiWeeklyShown(activity.start_date, target_date) THEN "False"
    ELSE "ok"

\* "True", "False", or "raise" when the body raises.
\* day_name = NoneVal is the default argument.
should_show_activity_on_date(activity, target_date, day_name) ==
    LET dn == IF day_name = NoneVal THEN DayNameOf(target_date) ELSE day_name
        range == DateRangeCheck(activity, target_date)
        day == DayCheck(activity, dn)
        freq == FrequencyCheck(activity, target_date)
    IN  IF range # "ok" THEN range
        ELSE IF day # "ok" THEN day
        ELSE IF freq # "ok" THEN freq
        ELSE "True"

----------------------------------------------------------------------------
(* Minimum-day configuration.  app.py imports SCHOOL_KID_ASSOCIATIONS and   *)
(* SCHOOL_MINIMUM_DAY_CONFIG from config, and src/config.py defines neither; *)
(* the tables below follow the specification (participant to institution,   *)
(* institution to {pattern, per-weekday end time}).                         *)

SCHOOL_KID_ASSOCIATIONS ==
    << [school |-> "Ohlone", kids |-> {"Ariella"}],
       [school |-> "JLS", kids |-> {"Ben"}],
       [school |-> "Preschool", kids |-> {"Dana"}] >>

SCHOOL_MINIMUM_DAY_CONFIG ==
    [s \in {"Ohlone", "JLS"} |->
        IF s = "Ohlone"
        THEN [pattern |-> "minimum day",
              end_times |-> [d \in {"monday", "wednesday", "friday"} |->
                                IF d = "friday" THEN <<12, 45>> ELSE <<13, 30>>]]
        ELSE [pattern |-> "Minimum Day",
              end_times |-> [d \in {"wednesday"} |-> <<12, 0>>]]]

\* re.compile(pattern, re.IGNORECASE).search(s) for the literal patterns of
\* the configuration: the lower-cased text contains the lower-cased pattern
Contains ==
    { <<"minimum day", "minimum day">>,
      <<"minimum day - early release", "minimum day">>,
      <<"picture day", "picture day">> }

\* the search without re.IGNORECASE
RegexSearchCaseSensitive(pattern, s) == <<s, pattern>> \in Contains

RegexSearchIgnoreCase(pattern, s) == <<Lower(s), Lower(pattern)>> \in Contains

----------------------------------------------------------------------------
(* The cached school events table *)

NoCache == [some |-> FALSE, df |-> << >>]

\* a loader that serves whatever it has cached, without a look at the file
LoadSchoolEventsCached_NoCheck(cache, ts, file) ==
    IF cache.some /\ ts # NoTimestamp
    THEN [df |-> cache.df, cache |-> cache, ts |-> ts]
    ELSE IF file.state # "ok"
    THEN [df |-> << >>, cache |-> cache, ts |-> ts]
    ELSE [df |-> file.events,
          cache |-> [some |-> TRUE, df |-> file.events],
          ts |-> file.mtime]

\* _load_school_events_cached: the table returned and the cache it leaves
LoadSchoolEventsCached(cache, ts, file) ==
    IF cache.some /\ ts # NoTimestamp /\ file.state # "absent" /\ file.mtime = ts
    THEN [df |-> cache.df, cache |-> cache, ts |-> ts]
    ELSE IF file.state = "absent"
    THEN [df |-> << >>, cache |-> cache, ts |-> ts]
    ELSE IF file.state = "corrupt"
    THEN [df |-> << >>, cache |-> cache, ts |-> ts]
    ELSE [df |-> file.events,
          cache |-> [some |-> TRUE, df |-> file.events],
          ts |-> file.mtime]

\* the school of the kid: first entry of SCHOOL_KID_ASSOCIATIONS that lists it
KidSchool(kid_name) ==
    LET hits == {i \in 1..Len(SCHOOL_KID_ASSOCIATIONS) :
                    kid_name \in SCHOOL_KID_ASSOCIATIONS[i].kids}
    IN  IF hits = {} THEN NoneVal
        ELSE SCHOOL_KID_ASSOCIATIONS[CHOOSE i \in hits : \A j \in hits : i <= j].school

\* MinimumDayLookup without the filter on kid_name: an event of any
\* participant on the date counts
MinimumDayLookup_AnyKid(kid_name, activity_date, day_of_week, school_config, loaded) ==
    IF loaded.df = << >> THEN [end |-> << >>, cache |-> loaded.cache, ts |-> loaded.ts]
    ELSE IF \E i \in 1..Len(loaded.df) :
                /\ loaded.df[i].start_date = activity_date
                /\ RegexSearchIgnoreCase(school_config.pattern, loaded.df[i].activity)
    THEN [end |-> IF Lower(day_of_week) \in DOMAIN school_config.end_times
                  THEN school_config.end_times[Lower(day_of_week)]
                  ELSE << >>,
          cache |-> loaded.cache, ts |-> loaded.ts]
    ELSE [end |-> << >>, cache |-> loaded.cache, ts |-> loaded.ts]

\* the try block of get_minimum_day_end_time: loaded is what
\* _load_school_events_cached returned and left in the cache.
\* end = << >> stands for None.
MinimumDayLookup(kid_name, activity_date, day_of_week, school_config, loaded) ==
    IF loaded.df = << >> THEN [end |-> << >>, cache |-> loaded.cache, ts |-> loaded.ts]
    ELSE IF \E i \in 1..Len(loaded.df) :
                /\ loaded.df[i].kid_name = kid_name
                /\ loaded.df[i].start_date = activity_date
                /\ RegexSearchIgnoreCase(school_config.pattern, loaded.df[i].activity)
    THEN [end |-> IF Lower(day_of_week) \in DOMAIN school_config.end_times
                  THEN school_config.end_times[Lower(day_of_week)]
                  ELSE << >>,
          cache |-> loaded.cache, ts |-> loaded.ts]
    ELSE [end |-> << >>, cache |-> loaded.cache, ts |-> loaded.ts]

\* get_minimum_day_end_time with school_events_df = None
get_minimum_day_end_time(kid_name, activity_date, day_of_week, cache, ts, file) ==
    IF KidSchool(kid_name) = NoneVal THEN [end |-> << >>, cache |-> cache, ts |-> ts]
    ELSE IF KidSchool(kid_name) \notin DOMAIN SCHOOL_MINIMUM_DAY_CONFIG
    THEN [end |-> << >>, cache |-> cache, ts |-> ts]
    ELSE IF SCHOOL_MINIMUM_DAY_CONFIG[KidSchool(kid_name)].pattern = ""
    THEN [end |-> << >>, cache |-> cache, ts |-> ts]
    ELSE MinimumDayLookup(kid_name, activity_date, day_of_week,
                          SCHOOL_MINIMUM_DAY_CONFIG[KidSchool(kid_name)],
                          LoadSchoolEventsCached(cache, ts, file))

----------------------------------------------------------------------------
(* End time *)

\* start_time_str with more than one colon keeps its first two fields
NormTime(t) == IF Len(t) > 2 THEN SubSeq(t, 1, 2) ELSE t

\* pd.to_datetime(start_time_str) succeeds
TimeParses(t) == Len(t) = 2 /\ t[1] \in 0..23 /\ t[2] \in 0..59

\* DurationMinutes taking the hours for minutes
DurationMinutes_Hours(duration) == duration.hundredths \div 100

\* int(float(duration) * 60) for a duration given in hundredths of an hour
\* (the durations of the model are exact in binary floating point)
DurationMinutes(duration) == (duration.hundredths * 60) \div 100

\* (datetime.combine(date, start) + timedelta(minutes=n)).time().strftime('%H:%M')
AddMinutes(hm, n) ==
    LET total == (hm[1] * 60 + hm[2] + n) % 1440
    IN  <<total \div 60, total % 60>>

\* IsSchoolActivity with "or activity_name" for "or activity_name == 'school'"
IsSchoolActivity_Truthy(activity) ==
    LET calendar_source == IF activity.calendar_source = NoneVal THEN "Family"
                           ELSE activity.calendar_source
        activity_name == Lower(activity.activity)
    IN  (calendar_source = "School") \/ (activity_name # "")

\* (calendar_source == 'School') or (activity_name == 'school')
IsSchoolActivity(activity) ==
    LET calendar_source == IF activity.calendar_source = NoneVal THEN "Family"
                           ELSE activity.calendar_source
        activity_name == Lower(activity.activity)
    IN  (calendar_source = "School") \/ (activity_name = "school")

\* "if minimum_day_end: end_time = minimum_day_end" for the result m of
\* get_minimum_day_end_time
MinimumDayOverride(end_time, m) ==
    [raised |-> FALSE,
     end_time |-> IF m.end # << >> THEN m.end ELSE end_time,
     cache |-> m.cache, ts |-> m.ts]

\* the end time of a record whose time and duration parsed
EndTimeOf(activity, activity_date, day_name, cache, ts, file, end_time) ==
    IF IsSchoolActivity(activity)
    THEN MinimumDayOverride(end_time,
            get_minimum_day_end_time(activity.kid_name, activity_date,
                                     IF day_name = NoneVal THEN DayNameOf(activity_date)
                                     ELSE day_name,
                                     cache, ts, file))
    ELSE [raised |-> FALSE, end_time |-> end_time, cache |-> cache, ts |-> ts]

\* calculate_activity_end_time: [raised, end_time, cache, ts]
calculate_activity_end_time(activity, activity_date, day_name, cache, ts, file) ==
    IF ~TimeParses(NormTime(activity.time))
    THEN [raised |-> TRUE, end_time |-> << >>, cache |-> cache, ts |-> ts]
    ELSE IF ~activity.duration.numeric
    THEN [raised |-> TRUE, end_time |-> << >>, cache |-> cache, ts |-> ts]
    ELSE EndTimeOf(activity, activity_date, day_name, cache, ts, file,
                   AddMinutes(NormTime(activity.time), DurationMinutes(activity.duration)))

----------------------------------------------------------------------------
(* Sorting *)

\* order of tuples of numbers of equal length, as the zero padded strings compare
RECURSIVE TupleLessEq(_, _)
TupleLessEq(a, b) ==
    IF a = << >> THEN TRUE
    ELSE IF a[1] # b[1] THEN a[1] < b[1]
    ELSE TupleLessEq(Tail(a), Tail(b))

\* position of a day abbreviation in the order of Python strings
DayAbbrevRank(s) ==
    CASE s = "?" -> 0
      [] s = "F" -> 1
      [] s = "M" -> 2
      [] s = "S" -> 3
      [] s = "T" -> 4
      [] s = "Th" -> 5
      [] s = "W" -> 6
      [] OTHER -> 7

\* position of a kid name in the order of Python strings
NameRank(s) ==
    CASE s = "" -> 0
      [] s = "Anna" -> 1
      [] s = "Ariella" -> 2
      [] s = "Ben" -> 3
      [] s = "Dana" -> 4
      [] s = "Test Kid" -> 5
      [] OTHER -> 6

----------------------------------------------------------------------------
(* Weekly materialization *)

\* the str items of the days list
StrDays(activity) == SelectSeq(DaysList(activity), IsStr)

\* config.DAY_ABBREV_MAP
DAY_ABBREV_MAP ==
    [name \in {"monday", "tuesday", "wednesday", "thursday", "friday", "saturday", "sunday"} |->
        CASE name = "monday" -> "M"
          [] name = "tuesday" -> "T"
          [] name = "wednesday" -> "W"
          [] name = "thursday" -> "Th"
          [] name = "friday" -> "F"
          [] name = "saturday" -> "S"
          [] name = "sunday" -> "S"]

\* analyze_navigation_context: weekly_schedule[weekly_schedule['Day'] == current_day_abbrev]
TodayActivities(weekly_schedule, today) ==
    SelectSeq(weekly_schedule, LAMBDA row : row.Day = DAY_ABBREV_MAP[DayNameOf(today)])

\* 'Th' for thursday, else day[0].upper()
DayAbbrev(day) == IF Lower(day) = "thursday" THEN "Th" ELSE FirstUpper(day)

\* str(calendar_source).lower(), Family when missing
SourceLower(activity) ==
    IF activity.calendar_source = NoneVal THEN "family" ELSE Lower(activity.calendar_source)

\* the dict appended to weekly_data; Kid is the sequence of the initials that
\* ' + ' joins (one initial before merging); g_idx and g_date record which
\* activity and which day_date the row was built for (they are no columns of
\* the table)
WeeklyRow(activity, idx, day, day_date, end_time) ==
    [Day |-> DayAbbrev(day),
     Kid |-> <<FirstUpper(activity.kid_name)>>,
     Activity |-> <<SourceLower(activity), activity.activity>>,
     calendar_source |-> SourceLower(activity),
     Time |-> NormTime(activity.time) \o end_time,
     Address |-> activity.address,
     Pickup |-> activity.pickup_driver,
     Return |-> activity.return_driver,
     Start_Date |-> activity.start_date,
     End_Date |-> activity.end_date,
     g_idx |-> idx,
     g_date |-> day_date]

\* the inner try block: e is the result of calculate_activity_end_time; the
\* row is lost when it raised or when kid_name[0] raises
WeeklyEmit(activity, idx, day, day_date, acc, e) ==
    IF e.raised THEN acc
    ELSE IF ~HasFirst(activity.kid_name) THEN [acc EXCEPT !.cache = e.cache, !.ts = e.ts]
    ELSE [acc EXCEPT !.rows = Append(acc.rows,
                                     WeeklyRow(activity, idx, day, day_date, e.end_time)),
                     !.cache = e.cache, !.ts = e.ts]

\* the day's body once day_date is known
WeeklyDayAt(activity, idx, day, day_date, file, acc) ==
    IF should_show_activity_on_date(activity, day_date, Lower(day)) # "True" THEN acc
    ELSE WeeklyEmit(activity, idx, day, day_date, acc,
                    calculate_activity_end_time(activity, day_date, Lower(day),
                                                acc.cache, acc.ts, file))

\* body of "for day in days" for one day; acc = [rows, cache, ts]
WeeklyDay(activity, idx, day, week_start, file, acc) ==
    IF DayIndex(Lower(day)) < 0 THEN acc
    ELSE WeeklyDayAt(activity, idx, day, week_start + DayIndex(Lower(day)), file, acc)

RECURSIVE WeeklyDays(_, _, _, _, _, _, _)
WeeklyDays(activity, idx, days, j, week_start, file, acc) ==
    IF j > Len(days) THEN acc
    ELSE WeeklyDays(activity, idx, days, j + 1, week_start, file,
                    WeeklyDay(activity, idx, days[j], week_start, file, acc))

\* body of "for idx, activity in df.iterrows()" for one activity
WeeklyActivity(activity, idx, week_start, week_end, file, acc) ==
    IF activity.start_date = NoDate THEN acc
    ELSE IF ~(activity.start_date <= week_end) THEN acc
    ELSE IF activity.end_date = NoDate THEN acc
    ELSE IF ~is_activity_active_in_week(activity.start_date, activity.end_date,
                                        week_start, week_end) THEN acc
    ELSE WeeklyDays(activity, idx, StrDays(activity), 1, week_start, file, acc)

RECURSIVE WeeklyActivities(_, _, _, _, _, _)
WeeklyActivities(table, i, week_start, week_end, file, acc) ==
    IF i > Len(table) THEN acc
    ELSE WeeklyActivities(table, i + 1, week_start, week_end, file,
                          WeeklyActivity(table[i], i, week_start, week_end, file, acc))

\* sort_values(['Day', 'Start_Time']): the order of the keys
WeeklyLessEq(a, b) ==
    IF a.Day # b.Day THEN DayAbbrevRank(a.Day) < DayAbbrevRank(b.Day)
    ELSE TupleLessEq(SubSeq(a.Time, 1, 2), SubSeq(b.Time, 1, 2))

\* the sort is stable (pandas sorts several keys with a stable lexsort):
\* a row goes behind every row that is not above it
RECURSIVE WeeklyInsert(_, _)
WeeklyInsert(sorted, x) ==
    IF sorted = << >> THEN <<x>>
    ELSE IF WeeklyLessEq(sorted[Len(sorted)], x) THEN Append(sorted, x)
    ELSE Append(WeeklyInsert(SubSeq(sorted, 1, Len(sorted) - 1), x), sorted[Len(sorted)])

RECURSIVE WeeklySort(_)
WeeklySort(s) ==
    IF s = << >> THEN << >>
    ELSE WeeklyInsert(WeeklySort(SubSeq(s, 1, Len(s) - 1)), s[Len(s)])

\* the sorted table returned once the loops have ended with acc
WeeklyResult(acc) == [acc EXCEPT !.rows = WeeklySort(acc.rows)]

\* create_weekly_schedule without the try blocks inside the loop: the first
\* record that raises ends the pass in the outer handler, which returns an
\* empty table
create_weekly_schedule_Abort(table, week_start, week_end, cache, ts, file) ==
    IF \E i \in 1..Len(table) :
          \/ table[i].start_date = NoDate \/ table[i].end_date = NoDate
          \/ ~TimeParses(NormTime(table[i].time)) \/ ~table[i].duration.numeric
    THEN [raised |-> FALSE, rows |-> << >>, cache |-> cache, ts |-> ts]
    ELSE WeeklyResult(WeeklyActivities(table, 1, week_start, week_end, file,
                                       [raised |-> FALSE, rows |-> << >>,
                                        cache |-> cache, ts |-> ts]))

\* df is None: what the caller passes is not a table at all
NoTable == <<[none |-> TRUE]>>

\* the body of the outer try block: df.empty raises on a value that is not a
\* table, before any record is looked at
WeeklyBody(table, week_start, week_end, cache, ts, file) ==
    IF table = NoTable THEN [raised |-> TRUE, rows |-> << >>, cache |-> cache, ts |-> ts]
    ELSE WeeklyResult(WeeklyActivities(table, 1, week_start, week_end, file,
                                       [raised |-> FALSE, rows |-> << >>,
                                        cache |-> cache, ts |-> ts]))

\* except Exception as e: ... return pd.DataFrame()
WeeklyOuterHandler(body, cache, ts) ==
    IF body.raised THEN [raised |-> FALSE, rows |-> << >>, cache |-> cache, ts |-> ts]
    ELSE body

\* create_weekly_schedule: [raised, rows, cache, ts]
create_weekly_schedule(table, week_start, week_end, cache, ts, file) ==
    WeeklyOuterHandler(WeeklyBody(table, week_start, week_end, cache, ts, file), cache, ts)

----------------------------------------------------------------------------
(* Hours summary *)

\* {day: 0.0 for day in [...]}: hours per day name, in hundredths
NoHours == [day \in SeqRange(DAY_NAMES) |-> 0]

\* "for day in days: daily_hours[day.lower()] += duration"; acc = [raised,
\* daily_hours]; an entry that is no str or no day name raises
RECURSIVE HoursDays(_, _, _, _)
HoursDays(days, j, duration, acc) ==
    IF j > Len(days) \/ acc.raised THEN acc
    ELSE IF ~IsStr(days[j]) \/ DayIndex(Lower(days[j])) < 0
    THEN [acc EXCEPT !.raised = TRUE]
    ELSE HoursDays(days, j + 1, duration,
                   [acc EXCEPT !.daily_hours[Lower(days[j])] = @ + duration.hundredths])

\* the loop body for one activity of the kid that is not named school
HoursActivity(activity, week_start, week_end, acc) ==
    IF activity.start_date = NoDate THEN [acc EXCEPT !.raised = TRUE]
    ELSE IF ~(activity.start_date <= week_end) THEN acc
    ELSE IF activity.end_date = NoDate THEN [acc EXCEPT !.raised = TRUE]
    ELSE IF ~is_activity_active_in_week(activity.start_date, activity.end_date,
                                        week_start, week_end) THEN acc
    ELSE IF ~activity.duration.numeric THEN [acc EXCEPT !.raised = TRUE]
    ELSE HoursDays(DaysList(activity), 1, activity.duration, acc)

RECURSIVE HoursActivities(_, _, _, _, _, _)
HoursActivities(table, i, kid_name, week_start, week_end, acc) ==
    IF i > Len(table) \/ acc.raised THEN acc
    ELSE HoursActivities(table, i + 1, kid_name, week_start, week_end,
            IF table[i].kid_name = kid_name /\ Lower(table[i].activity) # "school"
            THEN HoursActivity(table[i], week_start, week_end, acc)
            ELSE acc)

\* calculate_hours_by_day with both ends of the week given: [raised, daily_hours]
calculate_hours_by_day(table, kid_name, week_start, week_end) ==
    HoursActivities(table, 1, kid_name, week_start, week_end,
                    [raised |-> FALSE, daily_hours |-> NoHours])

----------------------------------------------------------------------------
(* Single-day materialization *)

\* CALENDAR_COLORS is imported from config.py, which does not define it; the
\* colours are those of the calendar-* style classes
CALENDAR_COLORS ==
    [c \in {"School", "Jewish", "Family"} |->
        IF c = "School" THEN "#87ceeb" ELSE IF c = "Jewish" THEN "#ffd700" ELSE "#000000"]

get_calendar_color(calendar_source) ==
    IF calendar_source \in DOMAIN CALENDAR_COLORS THEN CALENDAR_COLORS[calendar_source]
    ELSE CALENDAR_COLORS["Family"]

\* the dict appended to day_activities; kid is the sequence of the names that
\* ' + ' joins (one name before merging); g_idx records the activity
DayRow(activity, idx, end_time) ==
    LET calendar_source == IF activity.calendar_source = NoneVal THEN "Family"
                           ELSE activity.calendar_source
    IN  [time |-> NormTime(activity.time) \o end_time,
         activity |-> activity.activity,
         calendar_source |-> calendar_source,
         calendar_color |-> get_calendar_color(calendar_source),
         kid |-> <<activity.kid_name>>,
         address |-> activity.address,
         pickup |-> activity.pickup_driver,
         return |-> activity.return_driver,
         g_idx |-> idx]

\* the loop over display_df.iterrows(); acc = [raised, rows, cache, ts].
\* should_show_activity_on_date is called outside the try block.
\* the try block: e is the result of calculate_activity_end_time; an
\* exception drops the record
DayEmit(activity, i, acc, e) ==
    IF e.raised THEN acc
    ELSE [acc EXCEPT !.rows = Append(acc.rows, DayRow(activity, i, e.end_time)),
                     !.cache = e.cache, !.ts = e.ts]

\* the loop body after the call of should_show_activity_on_date returned show
DayShown(activity, i, target_date, day_name, file, acc, show) ==
    IF show = "raise" THEN [acc EXCEPT !.raised = TRUE]
    ELSE IF show = "False" THEN acc
    ELSE DayEmit(activity, i, acc,
                 calculate_activity_end_time(activity, target_date, day_name,
                                             acc.cache, acc.ts, file))

\* the loop body for one record
DayActivity(activity, i, target_date, day_name, file, acc) ==
    DayShown(activity, i, target_date, day_name, file, acc,
             should_show_activity_on_date(activity, target_date, day_name))

RECURSIVE DayActivities(_, _, _, _, _)
DayActivities(table, i, target_date, file, acc) ==
    IF i > Len(table) \/ acc.raised THEN acc
    ELSE DayActivities(table, i + 1, target_date, file,
                       DayActivity(table[i], i, target_date, DayNameOf(target_date), file, acc))

\* day_activities.sort(key=lambda x: x['time']), a stable sort
RECURSIVE DayInsert(_, _)
DayInsert(sorted, x) ==
    IF sorted = << >> THEN <<x>>
    ELSE IF TupleLessEq(sorted[Len(sorted)].time, x.time) THEN Append(sorted, x)
    ELSE Append(DayInsert(SubSeq(sorted, 1, Len(sorted) - 1), x), sorted[Len(sorted)])

RECURSIVE DaySort(_)
DaySort(s) ==
    IF s = << >> THEN << >>
    ELSE DayInsert(DaySort(SubSeq(s, 1, Len(s) - 1)), s[Len(s)])

\* sorted(kids): the names in the order of Python strings
RECURSIVE NameInsert(_, _)
NameInsert(sorted, x) ==
    IF sorted = << >> THEN <<x>>
    ELSE IF NameRank(sorted[Len(sorted)]) <= NameRank(x) THEN Append(sorted, x)
    ELSE Append(NameInsert(SubSeq(sorted, 1, Len(sorted) - 1), x), sorted[Len(sorted)])

RECURSIVE NameSort(_)
NameSort(s) ==
    IF s = << >> THEN << >>
    ELSE NameInsert(NameSort(SubSeq(s, 1, Len(s) - 1)), s[Len(s)])

RECURSIVE KidsOf(_)
KidsOf(group) == IF group = << >> THEN << >> ELSE group[1].kid \o KidsOf(Tail(group))

\* a finished group: its first row, with the kids merged when it has several
GroupRow(current_group) ==
    IF Len(current_group) > 1
    THEN [current_group[1] EXCEPT !.kid = NameSort(KidsOf(current_group))]
    ELSE current_group[1]

SameExceptKid(a, b) ==
    /\ a.time = b.time
    /\ a.activity = b.activity
    /\ a.address = b.address
    /\ a.pickup = b.pickup
    /\ a.return = b.return

\* a merge loop that puts each finished group in front of the list
RECURSIVE MergeFrom_Prepend(_, _, _, _)
MergeFrom_Prepend(day_activities, i, merged_activities, current_group) ==
    IF i > Len(day_activities) THEN <<GroupRow(current_group)>> \o merged_activities
    ELSE IF SameExceptKid(day_activities[i], current_group[1])
    THEN MergeFrom_Prepend(day_activities, i + 1, merged_activities,
                           Append(current_group, day_activities[i]))
    ELSE MergeFrom_Prepend(day_activities, i + 1,
                           <<GroupRow(current_group)>> \o merged_activities,
                           <<day_activities[i]>>)

\* the loop "for i in range(1, len(day_activities))" and the last group
RECURSIVE MergeFrom(_, _, _, _)
MergeFrom(day_activities, i, merged_activities, current_group) ==
    IF i > Len(day_activities) THEN Append(merged_activities, GroupRow(current_group))
    ELSE IF SameExceptKid(day_activities[i], current_group[1])
    THEN MergeFrom(day_activities, i + 1, merged_activities,
                   Append(current_group, day_activities[i]))
    ELSE MergeFrom(day_activities, i + 1,
                   Append(merged_activities, GroupRow(current_group)),
                   <<day_activities[i]>>)

MergeDayActivities(day_activities) ==
    IF Len(day_activities) > 1
    THEN MergeFrom(day_activities, 2, << >>, <<day_activities[1]>>)
    ELSE day_activities

\* display_day_activities: [raised, emitted, day_activities, cache, ts];
\* emitted is day_activities as the loop leaves it, day_activities the sorted
\* and merged list that is rendered
\* what display_day_activities leaves once the loop has ended with acc
DayResult(acc) ==
    [raised |-> acc.raised,
     emitted |-> acc.rows,
     day_activities |-> IF acc.raised THEN << >>
                        ELSE MergeDayActivities(DaySort(acc.rows)),
     cache |-> acc.cache,
     ts |-> acc.ts]

display_day_activities(display_df, target_date, cache, ts, file) ==
    DayResult(DayActivities(display_df, 1, target_date, file,
                            [raised |-> FALSE, rows |-> << >>, cache |-> cache, ts |-> ts]))

----------------------------------------------------------------------------
(* Weekly display *)

\* config.DAYS_ORDER: Saturday and Sunday share the abbreviation S
DAYS_ORDER == <<"M", "T", "W", "Th", "F", "S", "S">>

\* str.strip() of a cell
Strip(s) ==
    CASE s = "Park " -> "Park"
      [] s = " Park" -> "Park"
      [] OTHER -> s

\* position of a string in the order of Python strings
StrRank(s) ==
    CASE s = "" -> 0
      [] s = "?" -> 1
      [] s = "A" -> 2
      [] s = "Anna" -> 3
      [] s = "Ariella" -> 4
      [] s = "B" -> 5
      [] s = "Ben" -> 6
      [] s = "D" -> 7
      [] s = "Dad" -> 8
      [] s = "Dana" -> 9
      [] s = "Gym" -> 10
      [] s = "MINIMUM DAY - Early Release" -> 11
      [] s = "Minimum Day" -> 12
      [] s = "Mom" -> 13
      [] s = NoneVal -> 14
      [] s = "Park" -> 15
      [] s = "Piano" -> 16
      [] s = "Picture Day" -> 17
      [] s = "School" -> 18
      [] s = "Soccer" -> 19
      [] s = "T" -> 20
      [] s = "Test Kid" -> 21
      [] s = "family" -> 22
      [] s = "jewish" -> 23
      [] s = "school" -> 24
      [] OTHER -> 25

\* str() of a date cell: NaT is the text 'NaT', behind every written date
DateText(d) == IF d = NoDate THEN Date(9999, 12, 31) + 1 ELSE d

\* the cells of day_df_clean that the rows are grouped by: every column except
\* Kid, as stripped text (the Day cells of one day are equal)
CleanKey(row) ==
    [Activity |-> row.Activity,
     calendar_source |-> Strip(row.calendar_source),
     Time |-> row.Time,
     Address |-> Strip(row.Address),
     Pickup |-> Strip(row.Pickup),
     Return |-> Strip(row.Return),
     Start_Date |-> row.Start_Date,
     End_Date |-> row.End_Date]

\* the key as groupby orders it: the texts of the columns, column by column
KeyRank(key) ==
    <<StrRank(key.Activity[1]), StrRank(key.Activity[2]), StrRank(key.calendar_source)>>
    \o key.Time
    \o <<StrRank(key.Address), StrRank(key.Pickup), StrRank(key.Return),
         DateText(key.Start_Date), DateText(key.End_Date)>>

\* the distinct keys of day_df, sorted
RECURSIVE KeyInsert(_, _)
KeyInsert(sorted, key) ==
    IF sorted = << >> THEN <<key>>
    ELSE IF sorted[Len(sorted)] = key THEN sorted
    ELSE IF TupleLessEq(KeyRank(sorted[Len(sorted)]), KeyRank(key)) THEN Append(sorted, key)
    ELSE Append(KeyInsert(SubSeq(sorted, 1, Len(sorted) - 1), key), sorted[Len(sorted)])

RECURSIVE GroupKeys(_)
GroupKeys(day_df) ==
    IF day_df = << >> THEN << >>
    ELSE KeyInsert(GroupKeys(SubSeq(day_df, 1, Len(day_df) - 1)), CleanKey(day_df[Len(day_df)]))

\* the rows of one group, in the order of day_df
GroupOf(day_df, key) == SelectSeq(day_df, LAMBDA row : CleanKey(row) = key)

\* group['Kid'].unique(): the labels of the group, each once, in order
RECURSIVE UniqueKids(_)
UniqueKids(group) ==
    IF group = << >> THEN << >>
    ELSE LET front == UniqueKids(SubSeq(group, 1, Len(group) - 1))
             kid == group[Len(group)].Kid
         IN  IF \E k \in 1..Len(front) : front[k] = kid[1] THEN front ELSE front \o kid

\* sorted(...): the labels in the order of Python strings
RECURSIVE KidInsert(_, _)
KidInsert(sorted, x) ==
    IF sorted = << >> THEN <<x>>
    ELSE IF StrRank(sorted[Len(sorted)]) <= StrRank(x) THEN Append(sorted, x)
    ELSE Append(KidInsert(SubSeq(sorted, 1, Len(sorted) - 1), x), sorted[Len(sorted)])

RECURSIVE KidSort(_)
KidSort(s) ==
    IF s = << >> THEN << >>
    ELSE KidInsert(KidSort(SubSeq(s, 1, Len(s) - 1)), s[Len(s)])

\* the row of a group: its first row of day_df, with the kids merged when the
\* group has several rows
MergedRow(group) ==
    IF Len(group) > 1
    THEN [group[1] EXCEPT !.Kid = KidSort(UniqueKids(group))]
    ELSE group[1]

\* the loop over day_df_clean.groupby(group_columns)
MergedRows(day_df, keys) == [k \in 1..Len(keys) |-> MergedRow(GroupOf(day_df, keys[k]))]

\* day_df.sort_values('Time'): the rows of a day are few, and the sort leaves
\* rows of equal Time in their order
RECURSIVE TimeInsert(_, _)
TimeInsert(sorted, x) ==
    IF sorted = << >> THEN <<x>>
    ELSE IF TupleLessEq(sorted[Len(sorted)].Time, x.Time) THEN Append(sorted, x)
    ELSE Append(TimeInsert(SubSeq(sorted, 1, Len(sorted) - 1), x), sorted[Len(sorted)])

RECURSIVE TimeSort(_)
TimeSort(s) ==
    IF s = << >> THEN << >>
    ELSE TimeInsert(TimeSort(SubSeq(s, 1, Len(s) - 1)), s[Len(s)])

\* "Merge rows that are identical except for Kid": only a day of several rows
\* is grouped and sorted
MergeWeeklyDay(day_df) ==
    IF Len(day_df) > 1 THEN TimeSort(MergedRows(day_df, GroupKeys(day_df))) ELSE day_df

\* one pass of the loop over days_order: the day is rendered when it has rows
\* and is not before today
\* a merge that sets the joined label in the row it was given (no .copy())
WeeklyDayView_InPlace(day_activities, day_date, today) ==
    IF day_activities = << >> \/ day_date < today
    THEN [shown |-> FALSE, day_activities |-> day_activities, day_df |-> << >>]
    ELSE [shown |-> TRUE, day_activities |-> MergeWeeklyDay(day_activities),
          day_df |-> MergeWeeklyDay(day_activities)]

\* one day of the weekly display: day_activities are the rows given, as the
\* pass leaves them; day_df is built from copies (day_df.copy(), .loc[].copy())
WeeklyDayView(day_activities, day_date, today) ==
    IF day_activities = << >> \/ day_date < today
    THEN [shown |-> FALSE, day_activities |-> day_activities, day_df |-> << >>]
    ELSE [shown |-> TRUE, day_activities |-> day_activities,
          day_df |-> MergeWeeklyDay(day_activities)]

\* display_weekly_schedule: for each of the seven days what is rendered
display_weekly_schedule(weekly_schedule, week_start, today) ==
    [i \in 1..7 |->
        WeeklyDayView(SelectSeq(weekly_schedule, LAMBDA row : row.Day = DAYS_ORDER[i]),
                      week_start + i - 1, today)]

----------------------------------------------------------------------------
(* The combined table *)

\* config.REQUIRED_COLUMNS
REQUIRED_COLUMNS ==
    {"kid_name", "activity", "time", "duration", "frequency", "days_of_week",
     "start_date", "end_date", "address", "pickup_driver", "return_driver"}

\* s.startswith(prefix), for the names and prefixes of the tables
StartsWith ==
    { <<"School: Picnic", "School: ">>,
      <<"Jewish: Purim", "Jewish: ">>,
      <<"school: picnic", "school:">>,
      <<"school: picnic", "school: ">>,
      <<"jewish: purim", "jewish:">>,
      <<"jewish: purim", "jewish: ">> }

\* activity_str[8:]
DropEight(s) ==
    CASE s = "School: Picnic" -> "Picnic"
      [] s = "Jewish: Purim" -> "Purim"
      [] s = "school: Picnic" -> "Picnic"
      [] s = "JEWISH: Purim" -> "Purim"
      [] OTHER -> ""

remove_calendar_prefix(activity_name) ==
    IF <<activity_name, "School: ">> \in StartsWith THEN DropEight(activity_name)
    ELSE IF <<activity_name, "Jewish: ">> \in StartsWith THEN DropEight(activity_name)
    ELSE activity_name

\* df['activity'].astype(str).str.lower().str.startswith(('school:', 'jewish:'))
PrefixMask(activity_name) ==
    \/ <<Lower(activity_name), "school:">> \in StartsWith
    \/ <<Lower(activity_name), "jewish:">> \in StartsWith

\* the value None takes in a column (a text, a time, a number, a list, a date)
NoneOf(col) ==
    CASE col = "time" -> << >>
      [] col = "duration" -> [numeric |-> FALSE, hundredths |-> 0]
      [] col = "days_of_week" -> [list |-> FALSE, items |-> << >>]
      [] col \in {"start_date", "end_date"} -> NoDate
      [] OTHER -> NoneVal

\* a table is the sequence of its rows, each a function of the column names;
\* a table without rows has no cell to set
HasColumn(table, col) == table # << >> /\ col \in DOMAIN table[1]

\* "if col not in df.columns: df[col] = None" for the required columns
AddMissingColumns(table) ==
    [k \in 1..Len(table) |->
        [col \in DOMAIN table[k] \cup REQUIRED_COLUMNS |->
            IF col \in DOMAIN table[k] THEN table[k][col] ELSE NoneOf(col)]]

\* "if 'calendar_source' not in df.columns: df['calendar_source'] = source"
AddCalendarSource(table, source) ==
    IF table = << >> \/ HasColumn(table, "calendar_source") THEN table
    ELSE [k \in 1..Len(table) |->
            [col \in DOMAIN table[k] \cup {"calendar_source"} |->
                IF col = "calendar_source" THEN source ELSE table[k][col]]]

\* get_calendar_source: the source a name's prefix tells
get_calendar_source(activity_name) ==
    IF <<Lower(activity_name), "school:">> \in StartsWith THEN "School"
    ELSE IF <<Lower(activity_name), "jewish:">> \in StartsWith THEN "Jewish"
    ELSE "Family"

\* the loop over the three tables: with the column calendar_source the names
\* under the mask lose their prefix; without it the source is told from the
\* name and every name loses its prefix
RemovePrefixes(table) ==
    [k \in 1..Len(table) |->
        IF "calendar_source" \in DOMAIN table[k]
        THEN IF PrefixMask(table[k].activity)
             THEN [table[k] EXCEPT !.activity = remove_calendar_prefix(table[k].activity)]
             ELSE table[k]
        ELSE [col \in DOMAIN table[k] \cup {"calendar_source"} |->
                IF col = "calendar_source" THEN get_calendar_source(table[k].activity)
                ELSE IF col = "activity" THEN remove_calendar_prefix(table[k].activity)
                ELSE table[k][col]]]

\* the key that config.NAVIGATION_CONFIG does not hold: reading it raises
NoSuchKey == "<KeyError>"

\* school_events.csv as load_combined_data_for_display reads it: the rows
\* whose activity matches no ignored pattern; an exception on the way leaves
\* what was read
ReadSchoolEvents(file, ignored_activities) ==
    IF file.state # "ok" THEN << >>
    ELSE IF ignored_activities = NoSuchKey \/ ignored_activities = << >> THEN file.events
    ELSE SelectSeq(file.events,
                   LAMBDA row : \A p \in 1..Len(ignored_activities) :
                                   ~RegexSearchIgnoreCase(ignored_activities[p], row.activity))

\* jewish_holidays.csv
ReadHolidays(holidays) == IF holidays.state # "ok" THEN << >> ELSE holidays.rows

\* the three tables as they are concatenated
Prepared(table, source) == RemovePrefixes(AddCalendarSource(AddMissingColumns(table), source))

\* a concat that puts the school events first
ConcatTables_SchoolFirst(activities_df, school_events_df, jewish_holidays_df) ==
    school_events_df \o activities_df \o jewish_holidays_df

\* pd.concat([activities_df, school_events_df, jewish_holidays_df], ignore_index=True)
ConcatTables(activities_df, school_events_df, jewish_holidays_df) ==
    activities_df \o school_events_df \o jewish_holidays_df

\* load_combined_data_for_display: load_activities_from_google_drive raises
\* when the sheet cannot be read or is empty, and the result is then a table
\* without rows
load_combined_data_for_display(sheet, file, holidays, ignored_activities) ==
    IF sheet.state # "ok" \/ sheet.rows = << >>
    THEN [failed |-> TRUE, combined_df |-> << >>]
    ELSE [failed |-> FALSE,
          combined_df |->
             ConcatTables(Prepared(sheet.rows, "Family"),
                          Prepared(ReadSchoolEvents(file, ignored_activities), "School"),
                          Prepared(ReadHolidays(holidays), "Jewish"))]

----------------------------------------------------------------------------
(* Inputs *)

Jan6 == Date(2025, 1, 6)        \* a Monday
June2 == Date(2025, 6, 2)       \* a Monday
YearStart == Date(2025, 1, 1)
YearEnd == Date(2025, 12, 31)

JanWindow == Jan6 .. (Jan6 + NumDays - 1)
JuneWeek == June2 .. (June2 + 6)
Dates == JanWindow \cup JuneWeek

Rec(kid, act, time, dur, freq, days, sd, ed, src) ==
    [kid_name |-> kid, activity |-> act, time |-> time, duration |-> dur,
     frequency |-> freq, days_of_week |-> days, start_date |-> sd, end_date |-> ed,
     address |-> "Park", pickup_driver |-> "Mom", return_driver |-> "Dad",
     calendar_source |-> src]

Hours(h100) == [numeric |-> TRUE, hundredths |-> h100]
NotANumber == [numeric |-> FALSE, hundredths |-> 0]
List(items) == [list |-> TRUE, items |-> items]
NotAList == [list |-> FALSE, items |-> << >>]

\* records as the producers are to supply them
SoundRecords ==
    { Rec("Test Kid", "Soccer", <<9, 0>>, Hours(100), "weekly",
          List(<<"monday", "wednesday", "friday">>), YearStart, YearEnd, "Family"),
      Rec("Test Kid", "Piano", <<10, 0, 0>>, Hours(100), "bi-weekly",
          List(<<"monday">>), Jan6, YearEnd, "Family"),
      Rec("Ariella", "School", <<8, 0, 0>>, Hours(700), "weekly",
          List(<<"friday">>), YearStart, YearEnd, "School"),
      Rec("Ben", "Soccer", <<10, 0>>, Hours(150), "Bi-Weekly",
          List(<<"Wednesday", "sunday">>), Jan6 + 2, Jan6 + 11, "Family"),
      Rec("Ariella", "Piano", <<16, 30>>, Hours(100), "one-time",
          List(<<"friday">>), Jan6 + 4, Jan6 + 4, NoneVal) }

\* a day name written twice
RepeatedDayRecords ==
    { Rec("Test Kid", "Piano", <<9, 0>>, Hours(100), "weekly",
          List(<<"monday", "Monday">>), YearStart, YearEnd, "Family") }

\* the malformed records of the error taxonomy: unparseable time, days_of_week
\* that is no list, duration that is no number
MalformedRecords ==
    { Rec("Ben", "Soccer", <<25, 0>>, Hours(100), "weekly",
          List(<<"monday", "friday">>), YearStart, YearEnd, "Family"),
      Rec("Ben", "Soccer", <<9, 0>>, Hours(100), "weekly",
          NotAList, YearStart, YearEnd, "Family"),
      Rec("Ben", "Soccer", <<9, 0>>, NotANumber, "weekly",
          List(<<"monday", "friday">>), YearStart, YearEnd, "Family") }

\* records with a missing date or frequency, or a day that is no str
BrokenRecords ==
    { Rec("Ben", "Soccer", <<9, 0>>, Hours(100), "weekly",
          List(<<"monday", "friday">>), NoDate, YearEnd, "Family"),
      Rec("Ben", "Soccer", <<9, 0>>, Hours(100), "weekly",
          List(<<"monday", "friday">>), YearStart, NoDate, "Family"),
      Rec("Ben", "Soccer", <<9, 0>>, Hours(100), NoneVal,
          List(<<"monday", "friday">>), YearStart, YearEnd, "Family"),
      Rec("Ben", "Soccer", <<9, 0>>, Hours(100), "weekly",
          List(<<"monday", NotAString>>), YearStart, YearEnd, "Family") }

TablePool == SoundRecords \cup RepeatedDayRecords \cup MalformedRecords \cup BrokenRecords

\* single records over the values of the fields the recurrence predicate reads
PredicateRecords ==
    { Rec("Test Kid", "Soccer", <<9, 0>>, Hours(100), freq, days, range[1], range[2], "Family") :
        freq \in {"weekly", "bi-weekly", "Bi-Weekly", "one-time", NoneVal},
        days \in { List(<<"monday">>), List(<<"Monday", "wednesday", "friday">>),
                   List(<<"sunday", "Wednesday">>), List(<< >>),
                   List(<<"monday", NotAString>>), NotAList },
        range \in { <<YearStart, YearEnd>>, <<Jan6, YearEnd>>, <<Jan6 + 2, Jan6 + 17>>,
                    <<Jan6 + 6, Jan6 + 6>>, <<NoDate, YearEnd>>, <<YearStart, NoDate>> } }

\* single records over the values of the fields the end time reads
EndTimeRecords ==
    { Rec(kid, act, td[1], td[2], "weekly", List(<<"monday", "wednesday", "friday">>),
          YearStart, YearEnd, src) :
        kid \in {"Ariella", "Ben", "Dana", "Test Kid"},
        act \in {"Soccer", "School", "SCHOOL"},
        td \in { <<<<10, 0>>, Hours(150)>>, <<<<8, 0, 0>>, Hours(700)>>,
                 <<<<25, 0>>, Hours(150)>>, <<<<10, 0>>, NotANumber>> },
        src \in {"Family", "School", "Jewish", NoneVal} }

SingleRecordTables == {<<r>> : r \in PredicateRecords \cup EndTimeRecords}

RECURSIVE SeqsUpTo(_, _)
SeqsUpTo(S, n) ==
    IF n = 0 THEN {<< >>}
    ELSE LET shorter == SeqsUpTo(S, n - 1)
         IN  shorter \cup {Append(t, x) : t \in shorter, x \in S}

Tables == SeqsUpTo(TablePool, MaxRecords)

\* records that meet on the Mondays of the year: the same activity for several
\* kids, another activity at the same time, a kid with the initial of another,
\* the same activity from another calendar, the same address written with a
\* trailing blank, and an earlier activity that is also held on the weekend
MondaySoccer(kid) ==
    Rec(kid, "Soccer", <<9, 0>>, Hours(100), "weekly", List(<<"monday">>),
        YearStart, YearEnd, "Family")

MergePool ==
    { MondaySoccer("Ben"),
      MondaySoccer("Ariella"),
      MondaySoccer("Anna"),
      [MondaySoccer("Dana") EXCEPT !.activity = "Piano"],
      [MondaySoccer("Dana") EXCEPT !.calendar_source = "School"],
      [MondaySoccer("Test Kid") EXCEPT !.address = "Park "],
      Rec("Ben", "Piano", <<8, 0>>, Hours(100), "weekly",
          List(<<"monday", "saturday", "sunday">>), YearStart, YearEnd, "Family") }

MergeTables == SeqsUpTo(MergePool, MaxMergeRecords) \ {<< >>}

\* the activities sheet: it cannot be read, or it holds up to MaxSheetRows
\* rows, with or without the column calendar_source; names with a legacy
\* prefix in two letter cases, and the name of a school event
SheetRow(kid, act, src) ==
    Rec(kid, act, <<9, 0>>, Hours(100), "weekly", List(<<"monday">>), YearStart, YearEnd, src)

SheetPool ==
    { SheetRow("Ben", "Soccer", "Family"),
      SheetRow("Ariella", "School: Picnic", "School"),
      SheetRow("Ariella", "school: Picnic", "Family"),
      SheetRow("Ariella", "Picture Day", "Family") }

WithoutColumn(table, col) ==
    [k \in 1..Len(table) |-> [c \in DOMAIN table[k] \ {col} |-> table[k][c]]]

SheetTables ==
    SeqsUpTo(SheetPool, MaxSheetRows)
    \cup {WithoutColumn(<<r>>, "calendar_source") : r \in SheetPool}

Sheets ==
    {[state |-> "error", rows |-> << >>]} \cup {[state |-> "ok", rows |-> t] : t \in SheetTables}

\* jewish_holidays.csv: absent, unreadable, or rows without the columns
\* kid_name, address, pickup_driver, return_driver and calendar_source
Holiday(act, d) ==
    [activity |-> act, time |-> <<0, 0>>, duration |-> Hours(2400), frequency |-> "one-time",
     days_of_week |-> List(<<DayNameOf(d)>>), start_date |-> d, end_date |-> d]

HolidayFiles ==
    { [state |-> "absent", rows |-> << >>],
      [state |-> "corrupt", rows |-> << >>],
      [state |-> "ok", rows |-> <<Holiday("Jewish: Purim", Jan6 + 8)>>],
      [state |-> "ok", rows |-> <<Holiday("Purim", Jan6 + 8), Holiday("JEWISH: Purim", Jan6 + 9)>>] }

\* NAVIGATION_CONFIG['ignored_school_activities']: the key is not there, the
\* list is empty, or it names a pattern
IgnoredSettings == {NoSuchKey, << >>, <<"picture day">>}

\* versions of school_events.csv
Event(kid, d, act) == [kid_name |-> kid, start_date |-> d, activity |-> act]

EventsA ==
    << Event("Ariella", Jan6 + 4, "Minimum Day"),
       Event("Ben", Jan6 + 4, "Minimum Day"),
       Event("Ben", Jan6 + 9, "MINIMUM DAY - Early Release"),
       Event("Ariella", Jan6 + 11, "Picture Day") >>

EventsB ==
    << Event("Ariella", Jan6 + 11, "Minimum Day"),
       Event("Ariella", June2 + 4, "Minimum Day"),
       Event("Test Kid", Jan6 + 4, "Minimum Day") >>

FileVersion(mtime) == IF mtime % 2 = 1 THEN EventsA ELSE EventsB

InitialFiles ==
    { [state |-> "absent", mtime |-> 0, events |-> << >>],
      [state |-> "corrupt", mtime |-> 1, events |-> << >>],
      [state |-> "ok", mtime |-> 1, events |-> << >>],
      [state |-> "ok", mtime |-> 1, events |-> FileVersion(1)] }

----------------------------------------------------------------------------
(* State machine *)

Idle == [op |-> "idle"]

InitWith(tables) ==
    /\ df \in tables
    /\ school_file \in InitialFiles
    /\ school_events_cache = NoCache
    /\ school_events_cache_timestamp = NoTimestamp
    /\ ret = Idle

Init == InitWith(Tables)

\* a call of should_show_activity_on_date on a row of the table
ShouldShowCall ==
    /\ ret = Idle
    /\ \E i \in 1..Len(df), d \in Dates, dn \in {NoneVal, "monday"} :
          ret' = [op |-> "should_show_activity_on_date", idx |-> i, target_date |-> d,
                  day_name |-> dn,
                  result |-> should_show_activity_on_date(df[i], d, dn)]
    /\ UNCHANGED <<df, school_file, school_events_cache, school_events_cache_timestamp>>

\* a call of _load_school_events_cached
LoadedRet(loaded, cache0, ts0) ==
    [op |-> "_load_school_events_cached", cache0 |-> cache0, ts0 |-> ts0, df |-> loaded.df]

LoadSchoolEventsCall ==
    /\ ret = Idle
    /\ LET loaded == LoadSchoolEventsCached(school_events_cache,
                                            school_events_cache_timestamp, school_file)
       IN  /\ ret' = LoadedRet(loaded, school_events_cache, school_events_cache_timestamp)
           /\ school_events_cache' = loaded.cache
           /\ school_events_cache_timestamp' = loaded.ts
    /\ UNCHANGED <<df, school_file>>

\* _load_school_events_cached statement by statement: the call in progress
\* holds its position and the table it has read
Loading(pc, table) ==
    [op |-> "loading", pc |-> pc, table |-> table,
     cache0 |-> school_events_cache, ts0 |-> school_events_cache_timestamp]

\* the value the call in progress returns
Loaded(table) ==
    [op |-> "_load_school_events_cached", cache0 |-> ret.cache0, ts0 |-> ret.ts0, df |-> table]

\* lines 1199-1205: getmtime compared with the cached timestamp
LoadCheckMtime ==
    /\ ret = Idle
    /\ ret' = IF /\ school_events_cache.some /\ school_events_cache_timestamp # NoTimestamp
                 /\ school_file.state # "absent"
                 /\ school_file.mtime = school_events_cache_timestamp
              THEN LoadedRet([df |-> school_events_cache.df], school_events_cache,
                             school_events_cache_timestamp)
              ELSE Loading("exists", << >>)
    /\ UNCHANGED <<df, school_file, school_events_cache, school_events_cache_timestamp>>

\* lines 1208-1209: os.path.exists
LoadCheckExists ==
    /\ ret.op = "loading" /\ ret.pc = "exists"
    /\ ret' = IF school_file.state = "absent" THEN Loaded(<< >>)
              ELSE [ret EXCEPT !.pc = "read"]
    /\ UNCHANGED <<df, school_file, school_events_cache, school_events_cache_timestamp>>

\* lines 1211-1221: read_csv and the conversions; a failure ends the call in
\* the handler at 1226-1228
LoadRead ==
    /\ ret.op = "loading" /\ ret.pc = "read"
    /\ ret' = IF school_file.state = "ok"
              THEN [ret EXCEPT !.pc = "store", !.table = school_file.events]
              ELSE Loaded(<< >>)
    /\ UNCHANGED <<df, school_file, school_events_cache, school_events_cache_timestamp>>

\* lines 1223-1225: the table read is cached under the mtime the file has now
LoadStore ==
    /\ ret.op = "loading" /\ ret.pc = "store"
    /\ school_events_cache' = [some |-> TRUE, df |-> ret.table]
    /\ IF school_file.state = "absent"
       THEN /\ school_events_cache_timestamp' = school_events_cache_timestamp
            /\ ret' = Loaded(<< >>)
       ELSE /\ school_events_cache_timestamp' = school_file.mtime
            /\ ret' = Loaded(ret.table)
    /\ UNCHANGED <<df, school_file>>

\* the calendar updater rewrites school_events.csv while the app runs: at any
\* point, also between two statements of the loader
RewriteSchoolFile ==
    /\ school_file.mtime < MaxRaceMtime
    /\ school_file' = [state |-> "ok", mtime |-> school_file.mtime + 1,
                       events |-> FileVersion(school_file.mtime + 1)]
    /\ UNCHANGED <<df, school_events_cache, school_events_cache_timestamp, ret>>

\* the hours of a kid for a week, as the summary page asks for them
HoursByDayCall ==
    /\ ret = Idle
    /\ \E kid_name \in {"Ariella", "Ben", "Test Kid"} :
       \E week_start \in {d \in Dates : Weekday(d) = 0} :
          ret' = [op |-> "calculate_hours_by_day", kid_name |-> kid_name,
                  week_start |-> week_start, week_end |-> week_start + 6,
                  result |-> calculate_hours_by_day(df, kid_name, week_start, week_start + 6)]
    /\ UNCHANGED <<df, school_file, school_events_cache, school_events_cache_timestamp>>

\* the scraper leaves a file that cannot be parsed
CorruptSchoolFile ==
    /\ ret = Idle
    /\ school_file.mtime < MaxMtime
    /\ school_file' = [state |-> "corrupt", mtime |-> school_file.mtime + 1, events |-> << >>]
    /\ UNCHANGED <<df, school_events_cache, school_events_cache_timestamp, ret>>

\* a call of calculate_activity_end_time on a row of the table
EndTimeCall ==
    /\ ret = Idle
    /\ \E i \in 1..Len(df), d \in Dates, dn \in {NoneVal, "friday"} :
          LET e == calculate_activity_end_time(df[i], d, dn, school_events_cache,
                                               school_events_cache_timestamp, school_file)
          IN  /\ ret' = [op |-> "calculate_activity_end_time", idx |-> i,
                         activity_date |-> d, day_name |-> dn,
                         cache0 |-> school_events_cache,
                         ts0 |-> school_events_cache_timestamp,
                         raised |-> e.raised, end_time |-> e.end_time]
              /\ school_events_cache' = e.cache
              /\ school_events_cache_timestamp' = e.ts
    /\ UNCHANGED <<df, school_file>>

\* the week ranges create_weekly_schedule is called with: seven days from any
\* date, and shorter or empty ranges
WeekEnds(week_start) ==
    {week_start + 6} \cup
    (IF week_start \in Jan6 .. (Jan6 + 2) THEN {week_start + 2, week_start - 1} ELSE {})

CreateWeeklyScheduleCall ==
    /\ ret = Idle
    /\ \E week_start \in Dates :
       \E week_end \in WeekEnds(week_start) :
          LET w == create_weekly_schedule(df, week_start, week_end, school_events_cache,
                                          school_events_cache_timestamp, school_file)
          IN  /\ ret' = [op |-> "create_weekly_schedule", week_start |-> week_start,
                         week_end |-> week_end,
                         cache0 |-> school_events_cache,
                         ts0 |-> school_events_cache_timestamp,
                         raised |-> w.raised,
                         rows |-> w.rows]
              /\ school_events_cache' = w.cache
              /\ school_events_cache_timestamp' = w.ts
    /\ UNCHANGED <<df, school_file>>

DisplayDayActivitiesCall ==
    /\ ret = Idle
    /\ \E target_date \in Dates :
          LET r == display_day_activities(df, target_date, school_events_cache,
                                          school_events_cache_timestamp, school_file)
          IN  /\ ret' = [op |-> "display_day_activities", target_date |-> target_date,
                         cache0 |-> school_events_cache,
                         ts0 |-> school_events_cache_timestamp,
                         raised |-> r.raised, emitted |-> r.emitted,
                         day_activities |-> r.day_activities]
              /\ school_events_cache' = r.cache
              /\ school_events_cache_timestamp' = r.ts
    /\ UNCHANGED <<df, school_file>>

\* the calendar updater rewrites school_events.csv
WriteSchoolFile ==
    /\ ret = Idle
    /\ school_file.mtime < MaxMtime
    /\ school_file' = [state |-> "ok", mtime |-> school_file.mtime + 1,
                       events |-> FileVersion(school_file.mtime + 1)]
    /\ UNCHANGED <<df, school_events_cache, school_events_cache_timestamp, ret>>

\* school_events.csv is deleted: os.path.exists turns False
RemoveSchoolFile ==
    /\ ret = Idle
    /\ school_file.state = "ok"
    /\ school_file' = [state |-> "absent", mtime |-> school_file.mtime, events |-> << >>]
    /\ UNCHANGED <<df, school_events_cache, school_events_cache_timestamp, ret>>

\* the script run ends and its results are dropped
\* the weekly view of main: the schedule of the week is created and displayed
DisplayWeeklyRet(w, week_start, today) ==
    [op |-> "display_weekly_schedule", week_start |-> week_start, today |-> today,
     weekly_schedule |-> w.rows,
     days |-> display_weekly_schedule(w.rows, week_start, today)]

DisplayWeeklyScheduleCall ==
    /\ ret = Idle
    /\ \E week_start \in {d \in Dates : Weekday(d) = 0} :
       \E today \in {week_start, week_start + 1, week_start + 6} :
          LET w == create_weekly_schedule(df, week_start, week_start + 6, school_events_cache,
                                          school_events_cache_timestamp, school_file)
          IN  /\ ret' = DisplayWeeklyRet(w, week_start, today)
              /\ school_events_cache' = w.cache
              /\ school_events_cache_timestamp' = w.ts
    /\ UNCHANGED <<df, school_file>>

\* a call of load_combined_data_for_display, which reads the sheet and the
\* two files
LoadCombinedCall ==
    /\ ret = Idle
    /\ \E sheet \in Sheets, holidays \in HolidayFiles, ignored_activities \in IgnoredSettings :
          ret' = [op |-> "load_combined_data_for_display", sheet |-> sheet,
                  holidays |-> holidays, ignored_activities |-> ignored_activities,
                  result |-> load_combined_data_for_display(sheet, school_file, holidays,
                                                            ignored_activities)]
    /\ UNCHANGED <<df, school_file, school_events_cache, school_events_cache_timestamp>>

Rerun ==
    /\ ret # Idle
    /\ ret' = Idle
    /\ UNCHANGED <<df, school_file, school_events_cache, school_events_cache_timestamp>>

Next ==
    \/ ShouldShowCall
    \/ EndTimeCall
    \/ CreateWeeklyScheduleCall
    \/ DisplayDayActivitiesCall
    \/ WriteSchoolFile
    \/ RemoveSchoolFile
    \/ Rerun

\* the steps of the application: the views are the callers of the two functions
\* of a record
NextViews ==
    \/ CreateWeeklyScheduleCall
    \/ DisplayDayActivitiesCall
    \/ WriteSchoolFile
    \/ RemoveSchoolFile
    \/ Rerun

\* the views over every table of up to MaxRecords records
Spec == Init /\ [][NextViews]_vars

\* the views and the direct calls of the functions of a record, on every table
\* of one record
InitSingle == InitWith(SingleRecordTables)

SpecSingle == InitSingle /\ [][Next]_vars

\* the two views that merge, on every table of up to MaxMergeRecords records
\* that meet on one day
InitMerge ==
    /\ df \in MergeTables
    /\ school_file = [state |-> "absent", mtime |-> 0, events |-> << >>]
    /\ school_events_cache = NoCache
    /\ school_events_cache_timestamp = NoTimestamp
    /\ ret = Idle

NextMerge ==
    \/ DisplayWeeklyScheduleCall
    \/ DisplayDayActivitiesCall
    \/ Rerun

SpecMerge == InitMerge /\ [][NextMerge]_vars

\* the loading of the combined table, before any table is displayed
InitCombine == InitWith({<< >>})

NextCombine ==
    \/ LoadCombinedCall
    \/ WriteSchoolFile
    \/ RemoveSchoolFile
    \/ Rerun

SpecCombine == InitCombine /\ [][NextCombine]_vars

\* the accesses to the school events, cached and direct, between the changes
\* of the file
NextCache ==
    \/ LoadSchoolEventsCall
    \/ LoadCombinedCall
    \/ WriteSchoolFile
    \/ CorruptSchoolFile
    \/ RemoveSchoolFile
    \/ Rerun

SpecCache == InitCombine /\ [][NextCache]_vars

\* create_weekly_schedule called with a table of one record or with no table
SystemicTables == {NoTable} \cup SeqsUpTo(SoundRecords, 1)

InitSystemic == InitWith(SystemicTables)

NextSystemic ==
    \/ CreateWeeklyScheduleCall
    \/ WriteSchoolFile
    \/ RemoveSchoolFile
    \/ Rerun

SpecSystemic == InitSystemic /\ [][NextSystemic]_vars

\* the hours summary over the tables of the views
NextHours ==
    \/ HoursByDayCall
    \/ Rerun

SpecHours == Init /\ [][NextHours]_vars

\* the loader run statement by statement beside the writer of the file
NextRace ==
    \/ LoadCheckMtime
    \/ LoadCheckExists
    \/ LoadRead
    \/ LoadStore
    \/ RewriteSchoolFile
    \/ Rerun

SpecRace == InitCombine /\ [][NextRace]_vars

\* single records that start late in the day or after the early release
LateRecords ==
    { Rec(kid, act, td[1], td[2], "weekly", List(<<"monday", "wednesday", "friday">>),
          YearStart, YearEnd, src) :
        kid \in {"Ariella", "Ben"},
        act \in {"Soccer", "School"},
        td \in { <<<<10, 0>>, Hours(150)>>, <<<<14, 0>>, Hours(100)>>,
                 <<<<23, 0>>, Hours(200)>> },
        src \in {"Family", "School"} }

InitEndTime == InitWith({<<r>> : r \in LateRecords})

NextEndTime ==
    \/ EndTimeCall
    \/ WriteSchoolFile
    \/ RemoveSchoolFile
    \/ Rerun

SpecEndTime == InitEndTime /\ [][NextEndTime]_vars

----------------------------------------------------------------------------
(* Vocabulary of the properties *)

IsWeekly == ret.op = "create_weekly_schedule"
IsDay == ret.op = "display_day_activities"
IsShouldShow == ret.op = "should_show_activity_on_date"
IsEndTime == ret.op = "calculate_activity_end_time"

\* the range is a Monday-to-Sunday week
MondayWeek == IsWeekly /\ Weekday(ret.week_start) = 0 /\ ret.week_end = ret.week_start + 6

\* the weekday names a record lists, in lower case
ListedDays(r) == {Lower(x) : x \in SeqRange(StrDays(r))}

HasDates(r) == r.start_date # NoDate /\ r.end_date # NoDate
AllStrDays(r) == \A x \in SeqRange(DaysList(r)) : IsStr(x)

\* the occurrence predicate as section 4.1 of the specification words it
ShouldOccur(r, d) ==
    /\ r.start_date <= d /\ d <= r.end_date
    /\ DayNameOf(d) \in ListedDays(r)
    /\ Lower(r.frequency) = "bi-weekly" =>
          LET baselineMonday == CHOOSE m \in (r.start_date - 6)..r.start_date : Weekday(m) = 0
              targetMonday == CHOOSE m \in (d - 6)..d : Weekday(m) = 0
          IN  targetMonday >= baselineMonday
              /\ ((targetMonday - baselineMonday) \div 7) % 2 = 0

\* time, duration and participant from which a row can be built
Materializable(r) ==
    TimeParses(NormTime(r.time)) /\ r.duration.numeric /\ HasFirst(r.kid_name)

\* a record as the data model describes it
Sound(r) ==
    /\ Materializable(r)
    /\ HasDates(r) /\ r.start_date <= r.end_date
    /\ r.days_of_week.list /\ AllStrDays(r)
    /\ \A x \in SeqRange(DaysList(r)) : DayIndex(Lower(x)) >= 0
    /\ r.frequency # NoneVal

\* startTime + durationHours as 'HH:MM'
NaiveEnd(r) ==
    LET start == r.time[1] * 60 + r.time[2]
        finish == (start + (r.duration.hundredths * 60) \div 100) % 1440
    IN  <<finish \div 60, finish % 60>>

\* the dates around the range the properties look at
ProbeDates == Dates \cup ((ret.week_start - 7) .. (ret.week_start + 13))

WeeklyEmits(i, d) == \E k \in 1..Len(ret.rows) : ret.rows[k].g_idx = i /\ ret.rows[k].g_date = d

----------------------------------------------------------------------------
(* C1 *)

\* C1 as stated: for any record list and any range [week_start, week_end],
\* create_weekly_schedule emits an occurrence of record i for date d exactly
\* when d lies in the range and should_show_activity_on_date(record, d) is
\* true; no row is for a date outside the range or for a date whose weekday
\* the record does not list.  (Stated for the ranges with
\* week_start <= week_end.)
C1_AnyRange ==
    (IsWeekly /\ ret.week_start <= ret.week_end) =>
        /\ \A i \in 1..Len(df), d \in ProbeDates :
              WeeklyEmits(i, d) <=>
                 /\ ret.week_start <= d /\ d <= ret.week_end
                 /\ should_show_activity_on_date(df[i], d, NoneVal) = "True"
        /\ \A k \in 1..Len(ret.rows) :
              /\ ret.week_start <= ret.rows[k].g_date /\ ret.rows[k].g_date <= ret.week_end
              /\ DayNameOf(ret.rows[k].g_date) \in ListedDays(df[ret.rows[k].g_idx])

\* C1 amended: for any record list and any Monday-to-Sunday week,
\* create_weekly_schedule emits an occurrence of record i for date d exactly
\* when d lies in the week, should_show_activity_on_date(record, d) is true and
\* the record's time, duration and participant can be rendered; no row is for
\* a date outside the week or for a date whose weekday the record does not list.
C1_MondayWeek ==
    MondayWeek =>
        /\ \A i \in 1..Len(df), d \in ProbeDates :
              WeeklyEmits(i, d) <=>
                 /\ ret.week_start <= d /\ d <= ret.week_end
                 /\ should_show_activity_on_date(df[i], d, NoneVal) = "True"
                 /\ Materializable(df[i])
        /\ \A k \in 1..Len(ret.rows) :
              /\ ret.week_start <= ret.rows[k].g_date /\ ret.rows[k].g_date <= ret.week_end
              /\ DayNameOf(ret.rows[k].g_date) \in ListedDays(df[ret.rows[k].g_idx])

\* a Monday week in which one record is emitted on two dates and another
\* record, whose time cannot be parsed, occurs on a date but is not emitted
C1_Witness ==
    /\ MondayWeek
    /\ \E i \in 1..Len(df), d1, d2 \in ret.week_start .. ret.week_end :
          d1 # d2 /\ WeeklyEmits(i, d1) /\ WeeklyEmits(i, d2)
    /\ \E i \in 1..Len(df), d \in ret.week_start .. ret.week_end :
          /\ should_show_activity_on_date(df[i], d, NoneVal) = "True"
          /\ ~Materializable(df[i])
          /\ ~WeeklyEmits(i, d)

----------------------------------------------------------------------------
(* C2 *)

\* the record of the call should_show_activity_on_date or
\* calculate_activity_end_time was made on
Called == df[ret.idx]

\* whole weeks from the Monday of the week of a to the Monday of the week of b
WholeWeeks(a, b) ==
    LET mondayA == CHOOSE m \in (a - 6)..a : Weekday(m) = 0
        mondayB == CHOOSE m \in (b - 6)..b : Weekday(m) = 0
    IN  (mondayB - mondayA) \div 7

IsBiWeekly(r) == r.frequency # NoneVal /\ Lower(r.frequency) = "bi-weekly"

\* C2: for a bi-weekly record, should_show_activity_on_date(R, D) is true
\* exactly when validFrom <= D <= validTo, the weekday of D is listed, and the
\* number of whole weeks from the Monday of validFrom's week to the Monday of
\* D's week is even; with validFrom = Monday 2025-01-06 and days {monday} it is
\* true on 2025-01-06, false on 2025-01-13 and true on 2025-01-20.
C2_BiWeeklyParity ==
    (IsShouldShow /\ ret.day_name = NoneVal /\ IsBiWeekly(Called)
        /\ HasDates(Called) /\ AllStrDays(Called)) =>
        /\ ret.result \in {"True", "False"}
        /\ ret.result = "True" <=>
              /\ Called.start_date <= ret.target_date
              /\ ret.target_date <= Called.end_date
              /\ DayNameOf(ret.target_date) \in ListedDays(Called)
              /\ WholeWeeks(Called.start_date, ret.target_date) % 2 = 0
        /\ (Called.start_date = Date(2025, 1, 6) /\ ListedDays(Called) = {"monday"}) =>
              /\ ret.target_date = Date(2025, 1, 6) => ret.result = "True"
              /\ ret.target_date = Date(2025, 1, 13) => ret.result = "False"
              /\ ret.target_date = Date(2025, 1, 20) => ret.result = "True"

\* a bi-weekly record whose validFrom is not a Monday is shown two weeks
\* after the week of validFrom
C2_Witness ==
    /\ IsShouldShow /\ ret.day_name = NoneVal /\ IsBiWeekly(Called)
    /\ HasDates(Called) /\ AllStrDays(Called)
    /\ Weekday(Called.start_date) # 0
    /\ WholeWeeks(Called.start_date, ret.target_date) = 2
    /\ ret.result = "True"

----------------------------------------------------------------------------
(* C3 *)

\* C3: for every record with validFrom and validTo and every date D before
\* validFrom or after validTo, should_show_activity_on_date is false (whatever
\* the frequency and the day name passed), and neither view has a row of the
\* record for such a date.
C3_DateContainment ==
    /\ (IsShouldShow /\ HasDates(Called)
          /\ (ret.target_date < Called.start_date \/ ret.target_date > Called.end_date))
        => ret.result = "False"
    /\ IsWeekly => \A k \in 1..Len(ret.rows) :
          /\ df[ret.rows[k].g_idx].start_date <= ret.rows[k].g_date
          /\ ret.rows[k].g_date <= df[ret.rows[k].g_idx].end_date
    /\ IsDay => \A k \in 1..Len(ret.emitted) :
          /\ df[ret.emitted[k].g_idx].start_date <= ret.target_date
          /\ ret.target_date <= df[ret.emitted[k].g_idx].end_date

\* a date after validTo whose weekday the record lists, in a week the
\* frequency allows: only the date range keeps the record off
C3_Witness ==
    /\ IsShouldShow /\ HasDates(Called) /\ AllStrDays(Called)
    /\ ret.day_name = NoneVal
    /\ ret.target_date > Called.end_date
    /\ DayNameOf(ret.target_date) \in ListedDays(Called)
    /\ Called.frequency = "weekly"
    /\ ret.result = "False"

----------------------------------------------------------------------------
(* C4 *)

\* C4: if the weekday name of D is not, ignoring case, among the names the
\* record lists, should_show_activity_on_date(R, D) is not true: it is false
\* for every record with dates whose listed days are all strings.
C4_WeekdayGating ==
    (IsShouldShow /\ ret.day_name = NoneVal
        /\ DayNameOf(ret.target_date) \notin ListedDays(Called)) =>
        /\ ret.result # "True"
        /\ (HasDates(Called) /\ AllStrDays(Called)) => ret.result = "False"

\* a date inside the validity of a record that lists other days, one of them
\* capitalised
C4_Witness ==
    /\ IsShouldShow /\ ret.day_name = NoneVal
    /\ HasDates(Called) /\ AllStrDays(Called)
    /\ Called.start_date <= ret.target_date /\ ret.target_date <= Called.end_date
    /\ "Monday" \in SeqRange(DaysList(Called))
    /\ DayNameOf(ret.target_date) = "tuesday"
    /\ ret.result = "False"

----------------------------------------------------------------------------
(* C5 *)

\* School origin, or the name 'school' in any case
SchoolLike(r) == r.calendar_source = "School" \/ Lower(r.activity) = "school"

\* the end times the minimum-day rule of the record's participant holds
RuleEndTimes(r) ==
    LET school == KidSchool(r.kid_name)
    IN  IF school \in DOMAIN SCHOOL_MINIMUM_DAY_CONFIG
        THEN {SCHOOL_MINIMUM_DAY_CONFIG[school].end_times[d] :
                 d \in DOMAIN SCHOOL_MINIMUM_DAY_CONFIG[school].end_times}
        ELSE {}

\* a table of one sound weekly record whose validity covers the Monday week
OneWeeklyRecord ==
    /\ MondayWeek
    /\ Len(df) = 1
    /\ Sound(df[1])
    /\ Lower(df[1].frequency) = "weekly"
    /\ df[1].start_date <= ret.week_start /\ ret.week_end <= df[1].end_date

\* the dates of the week on which the days the record lists fall
ListedDates == {ret.week_start + DayIndex(d) : d \in ListedDays(df[1])}

\* one row per entry of days_of_week, each on the date of its weekday
OnePerListedDay ==
    /\ Len(ret.rows) = Len(DaysList(df[1]))
    /\ {ret.rows[k].g_date : k \in 1..Len(ret.rows)} = ListedDates

\* the scenario of the specification: Mon/Wed/Fri 09:00 for 1 hour over
\* 2025-06-02..2025-06-08
Scenario ==
    /\ IsWeekly
    /\ df = << Rec("Test Kid", "Soccer", <<9, 0>>, Hours(100), "weekly",
                   List(<<"monday", "wednesday", "friday">>), Date(2025, 1, 1),
                   Date(2025, 12, 31), "Family") >>
    /\ ret.week_start = Date(2025, 6, 2) /\ ret.week_end = Date(2025, 6, 8)

ScenarioResult ==
    /\ Len(ret.rows) = 3
    /\ {ret.rows[k].g_date : k \in 1..3} = {Date(2025, 6, 2), Date(2025, 6, 4), Date(2025, 6, 6)}
    /\ \A k \in 1..3 : ret.rows[k].Time = <<9, 0, 10, 0>>

----------------------------------------------------------------------------
(* C6 *)

\* C6: a weekly or bi-weekly record contributes at most one occurrence per
\* calendar date to a materialization pass (a Monday week, or a single day),
\* whatever days_of_week contains.
C6_OncePerDate ==
    /\ MondayWeek => \A k1, k2 \in 1..Len(ret.rows) :
          (k1 # k2 /\ ret.rows[k1].g_idx = ret.rows[k2].g_idx)
             => ret.rows[k1].g_date # ret.rows[k2].g_date
    /\ IsDay => \A k1, k2 \in 1..Len(ret.emitted) :
          k1 # k2 => ret.emitted[k1].g_idx # ret.emitted[k2].g_idx

----------------------------------------------------------------------------
(* C7 *)

WithoutRow(table, i) == SubSeq(table, 1, i - 1) \o SubSeq(table, i + 1, Len(table))

\* the rows without the position of their record in the table
StripIdx(rows) == [k \in 1..Len(rows) |-> [rows[k] EXCEPT !.g_idx = 0]]

\* unparseable time, days_of_week that is no list, or duration that is no number
Malformed(r) ==
    \/ ~TimeParses(NormTime(r.time))
    \/ ~r.days_of_week.list
    \/ ~r.duration.numeric

\* record i is malformed and every other record of the table is sound
OnlyMalformed(i) ==
    /\ Malformed(df[i])
    /\ \A j \in 1..Len(df) : j # i => Sound(df[j])

\* C7: when exactly one record of the table is malformed (unparseable time,
\* days_of_week no list, duration no number) and the week is a Monday week,
\* create_weekly_schedule returns exactly the rows it returns for the table
\* without that record, each other record on the dates it occurs on; the
\* malformed record contributes no row.
C7_MalformedIsolation ==
    \A i \in 1..Len(df) :
        (MondayWeek /\ OnlyMalformed(i)) =>
            /\ StripIdx(ret.rows) =
                  StripIdx(create_weekly_schedule(WithoutRow(df, i), ret.week_start,
                              ret.week_end, ret.cache0, ret.ts0, school_file).rows)
            /\ \A k \in 1..Len(ret.rows) : ret.rows[k].g_idx # i
            /\ \A j \in 1..Len(df), d \in ProbeDates :
                  j # i => (WeeklyEmits(j, d) <=>
                              /\ ret.week_start <= d /\ d <= ret.week_end
                              /\ ShouldOccur(df[j], d))

\* a table whose first record has an unparseable time and whose second record
\* is emitted
C7_Witness ==
    /\ MondayWeek
    /\ Len(df) = 2
    /\ OnlyMalformed(1)
    /\ ~TimeParses(NormTime(df[1].time))
    /\ should_show_activity_on_date(df[1], ret.week_start, NoneVal) = "True"
    /\ Len(ret.rows) > 0

----------------------------------------------------------------------------
(* C8 *)

\* record i is not sound and every other record of the table is
OnlyBad(i) ==
    /\ ~Sound(df[i])
    /\ \A j \in 1..Len(df) : j # i => Sound(df[j])

\* C8: when one record of the table is bad (validFrom or validTo None,
\* frequency None, a day that is no str, unparseable time, duration no
\* number), display_day_activities does not raise and emits the occurrences
\* of the other records for the date.
C8_DayIsolation ==
    \A i \in 1..Len(df) :
        (IsDay /\ OnlyBad(i)) =>
            /\ ~ret.raised
            /\ StripIdx(ret.emitted) =
                  StripIdx(display_day_activities(WithoutRow(df, i), ret.target_date,
                              ret.cache0, ret.ts0, school_file).emitted)

----------------------------------------------------------------------------
(* C9 *)

\* the weekday the end time is resolved for
ResolvedDay == IF ret.day_name = NoneVal THEN DayNameOf(ret.activity_date) ELSE ret.day_name

\* the minimum-day table the call read
TableRead == LoadSchoolEventsCached(ret.cache0, ret.ts0, school_file).df

\* the table holds an event of the participant on the date whose name matches
\* the pattern of the participant's school, ignoring case
MinimumDayEvent(r, d) ==
    LET school == KidSchool(r.kid_name)
    IN  /\ school \in DOMAIN SCHOOL_MINIMUM_DAY_CONFIG
        /\ \E k \in 1..Len(TableRead) :
              /\ TableRead[k].kid_name = r.kid_name
              /\ TableRead[k].start_date = d
              /\ <<Lower(TableRead[k].activity),
                   Lower(SCHOOL_MINIMUM_DAY_CONFIG[school].pattern)>> \in Contains

\* C9 as stated: for every record whose originSource is not School, whatever
\* its participant, name and date and whatever the minimum-day table holds,
\* the end time is startTime + durationHours (10:00 + 1.5 h is 11:30).
C9_NonSchoolOrigin ==
    (IsEndTime /\ ~ret.raised /\ Called.calendar_source # "School") =>
        ret.end_time = NaiveEnd(Called)

\* C9 amended: for every record whose originSource is not School and whose
\* name is not 'school' in any letter case, whatever its participant and date
\* and whatever the minimum-day table holds, the end time is
\* startTime + durationHours (10:00 + 1.5 h is 11:30).
C9_NonSchoolActivity ==
    (IsEndTime /\ Called.calendar_source # "School" /\ Lower(Called.activity) # "school"
        /\ TimeParses(NormTime(Called.time)) /\ Called.duration.numeric) =>
        /\ ~ret.raised
        /\ ret.end_time = NaiveEnd(Called)
        /\ (Called.time = <<10, 0>> /\ Called.duration = Hours(150)) => ret.end_time = <<11, 30>>

\* a Family record of a participant whose school has a minimum day on the
\* date, with an end time for the weekday: 10:00 + 1.5 h still ends 11:30
C9_Witness ==
    /\ IsEndTime /\ Called.calendar_source = "Family" /\ Called.activity = "Soccer"
    /\ Called.kid_name = "Ariella"
    /\ MinimumDayEvent(Called, ret.activity_date)
    /\ ResolvedDay = "friday"
    /\ Called.time = <<10, 0>> /\ Called.duration = Hours(150)
    /\ ret.end_time = <<11, 30>>

----------------------------------------------------------------------------
(* C10 *)

\* C10: for a School-origin record whose participant's school has a
\* minimum-day rule, when the minimum-day table holds an event of that
\* participant on that date whose name matches the rule's pattern ignoring
\* case and the rule has an end time for the weekday, the end time is that
\* entry (12:45 for Ariella on a minimum-day Friday), not
\* startTime + durationHours.
C10_MinimumDayOverride ==
    (IsEndTime /\ Called.calendar_source = "School"
        /\ TimeParses(NormTime(Called.time)) /\ Called.duration.numeric
        /\ MinimumDayEvent(Called, ret.activity_date)
        /\ ResolvedDay \in DOMAIN SCHOOL_MINIMUM_DAY_CONFIG[KidSchool(Called.kid_name)].end_times) =>
        /\ ~ret.raised
        /\ ret.end_time =
              SCHOOL_MINIMUM_DAY_CONFIG[KidSchool(Called.kid_name)].end_times[ResolvedDay]
        /\ (Called.kid_name = "Ariella" /\ ResolvedDay = "friday") => ret.end_time = <<12, 45>>

\* Ariella's school day from 08:00 for 7 hours ends 12:45, not 15:00, on a
\* minimum-day Friday
C10_Witness ==
    /\ IsEndTime /\ Called.calendar_source = "School" /\ Called.kid_name = "Ariella"
    /\ Called.time = <<8, 0, 0>> /\ Called.duration = Hours(700)
    /\ MinimumDayEvent(Called, ret.activity_date)
    /\ DayNameOf(ret.activity_date) = "friday" /\ ret.day_name = NoneVal
    /\ NaiveEnd(Called) = <<15, 0>>
    /\ ret.end_time = <<12, 45>>

----------------------------------------------------------------------------
(* C11 *)

\* one of the pieces of override data is missing for the call
OverrideDataMissing ==
    \/ KidSchool(Called.kid_name) = NoneVal
    \/ KidSchool(Called.kid_name) \notin DOMAIN SCHOOL_MINIMUM_DAY_CONFIG
    \/ school_file.state \in {"absent", "corrupt"}
    \/ TableRead = << >>
    \/ ~MinimumDayEvent(Called, ret.activity_date)
    \/ ResolvedDay \notin DOMAIN SCHOOL_MINIMUM_DAY_CONFIG[KidSchool(Called.kid_name)].end_times

\* C11: whenever override data is missing (the participant has no school,
\* the school has no rule, the minimum-day file is absent, empty or
\* unreadable, no event of that participant on that date matches the pattern,
\* or the weekday has no end time in the rule), the end time of a record with
\* a start time and a duration is startTime + durationHours and the call does
\* not raise.
C11_MissingOverrideData ==
    (IsEndTime /\ TimeParses(NormTime(Called.time)) /\ Called.duration.numeric
        /\ OverrideDataMissing) =>
        /\ ~ret.raised
        /\ ret.end_time = NaiveEnd(Called)

\* Ariella's School record on a Wednesday on which only Ben has a minimum
\* day: the end time is the naive 15:00
C11_Witness ==
    /\ IsEndTime /\ Called.calendar_source = "School" /\ Called.kid_name = "Ariella"
    /\ Called.time = <<8, 0, 0>> /\ Called.duration = Hours(700)
    /\ ResolvedDay = "wednesday"
    /\ \E k \in 1..Len(TableRead) :
          /\ TableRead[k].kid_name = "Ben" /\ TableRead[k].start_date = ret.activity_date
          /\ Lower(TableRead[k].activity) = "minimum day - early release"
    /\ ~MinimumDayEvent(Called, ret.activity_date)
    /\ ~ret.raised /\ ret.end_time = <<15, 0>>

\* a School record read while the file is gone and the cache still holds the
\* minimum day of the date
C11_WitnessAbsent ==
    /\ IsEndTime /\ Called.calendar_source = "School" /\ Called.kid_name = "Ariella"
    /\ school_file.state = "absent" /\ ret.cache0.some
    /\ \E k \in 1..Len(ret.cache0.df) :
          /\ ret.cache0.df[k].kid_name = "Ariella"
          /\ ret.cache0.df[k].start_date = ret.activity_date
          /\ ret.cache0.df[k].activity = "Minimum Day"
    /\ ResolvedDay = "friday"
    /\ TimeParses(NormTime(Called.time)) /\ Called.duration.numeric
    /\ ret.end_time = NaiveEnd(Called)

----------------------------------------------------------------------------
(* The merger *)

IsWeeklyDisplay == ret.op = "display_weekly_schedule"

\* the fields of an occurrence other than its participants: of a row of the
\* day view, and of a row of the weekly view with the date it was built for
DayFields(row) ==
    [time |-> row.time, activity |-> row.activity, calendar_source |-> row.calendar_source,
     address |-> row.address, pickup |-> row.pickup, return |-> row.return]

WeekFields(row) ==
    [date |-> row.g_date, Activity |-> row.Activity, calendar_source |-> row.calendar_source,
     Time |-> row.Time, Address |-> row.Address, Pickup |-> row.Pickup,
     Return |-> row.Return, Start_Date |-> row.Start_Date, End_Date |-> row.End_Date]

DayKids(row) == row.kid
WeekKids(row) == row.Kid

\* the merger was given rows and gave merged: the rows of the day view, and
\* the rows of each rendered day of the weekly view
DayMerged == IsDay /\ ~ret.raised

MergerRuns ==
    IF DayMerged THEN {[rows |-> ret.emitted, merged |-> ret.day_activities, view |-> "day"]}
    ELSE IF IsWeeklyDisplay
    THEN {[rows |-> ret.days[i].day_activities, merged |-> ret.days[i].day_df, view |-> "week"] :
            i \in {j \in 1..7 : ret.days[j].shown}}
    ELSE {}

FieldsOf(run, row) == IF run.view = "day" THEN DayFields(row) ELSE WeekFields(row)
KidsIn(run, row) == IF run.view = "day" THEN DayKids(row) ELSE WeekKids(row)

\* the positions of rows that agree with rows[i] in every field but the participants
Alike(run, rows, i) == {j \in 1..Len(rows) : FieldsOf(run, rows[j]) = FieldsOf(run, rows[i])}

Occurrences(seq, x) == Cardinality({k \in 1..Len(seq) : seq[k] = x})

\* label joins the participants of the rows at the positions G, sorted
JoinsSorted(run, label, G) ==
    /\ Len(label) = Cardinality(G)
    /\ \A j \in G :
          LET name == KidsIn(run, run.rows[j])[1]
          IN  Occurrences(label, name) =
                 Cardinality({g \in G : KidsIn(run, run.rows[g])[1] = name})
    /\ \A a, b \in 1..Len(label) : a < b => StrRank(label[a]) <= StrRank(label[b])

\* the rows at the positions G are of different participants
DifferentKids(run, G) ==
    \A a, b \in G : a # b => df[run.rows[a].g_idx].kid_name # df[run.rows[b].g_idx].kid_name

\* C12: rows of k > 1 participants that are identical except for the
\* participant give exactly one merged row, and its label joins all their
\* participants in sorted order
C12_OneRowPerGroup ==
    \A run \in MergerRuns :
       \A i \in 1..Len(run.rows) :
          (/\ Cardinality(Alike(run, run.rows, i)) > 1
           /\ DifferentKids(run, Alike(run, run.rows, i))) =>
             /\ Cardinality(Alike(run, run.merged \o <<run.rows[i]>>, Len(run.merged) + 1)) = 2
             /\ \A o \in 1..Len(run.merged) :
                   FieldsOf(run, run.merged[o]) = FieldsOf(run, run.rows[i]) =>
                      JoinsSorted(run, KidsIn(run, run.merged[o]), Alike(run, run.rows, i))

\* the same, of the day view alone and of the weekly view alone
C12_DayOnly == DayMerged => C12_OneRowPerGroup
C12_WeekOnly == IsWeeklyDisplay => C12_OneRowPerGroup

\* C13: no two merged rows are equal in every field but the participants,
\* wherever the rows stood
C13_NoAlikeRowsLeft ==
    \A run \in MergerRuns :
       \A a, b \in 1..Len(run.merged) :
          a # b => FieldsOf(run, run.merged[a]) # FieldsOf(run, run.merged[b])

\* the same, of the day view alone and of the weekly view alone
C13_DayOnly == DayMerged => C13_NoAlikeRowsLeft
C13_WeekOnly == IsWeeklyDisplay => C13_NoAlikeRowsLeft

\* C14: a merged row joins only participants of rows that agree with it in
\* every other field, and a row that no other row agrees with is passed on
\* unchanged
C14_OnlyAlikeRowsJoined ==
    \A run \in MergerRuns :
       /\ \A o \in 1..Len(run.merged) :
             \A n \in 1..Len(KidsIn(run, run.merged[o])) :
                \E j \in 1..Len(run.rows) :
                   /\ FieldsOf(run, run.rows[j]) = FieldsOf(run, run.merged[o])
                   /\ KidsIn(run, run.rows[j])[1] = KidsIn(run, run.merged[o])[n]
       /\ \A i \in 1..Len(run.rows) :
             Cardinality(Alike(run, run.rows, i)) = 1 =>
                \E o \in 1..Len(run.merged) : run.merged[o] = run.rows[i]

\* the same, of the day view alone and of the weekly view alone
C14_DayOnly == DayMerged => C14_OnlyAlikeRowsJoined
C14_WeekOnly == IsWeeklyDisplay => C14_OnlyAlikeRowsJoined

\* the merger run once more, on what it gave
Remerged(run) ==
    IF run.view = "day" THEN MergeDayActivities(DaySort(run.merged))
    ELSE MergeWeeklyDay(run.merged)

\* C15: merging a merged list gives the same rows, with the same labels, in
\* the same order
C15_MergeIdempotent == \A run \in MergerRuns : Remerged(run) = run.merged

\* the day view joined Ben and Ariella at 09:00 behind the 08:00 row
C15_Witness ==
    /\ DayMerged
    /\ Len(ret.emitted) = 3 /\ Len(ret.day_activities) = 2
    /\ ret.day_activities[1].time = <<8, 0, 9, 0>>
    /\ ret.day_activities[2].kid = <<"Ariella", "Ben">>
    /\ MergeDayActivities(DaySort(ret.day_activities)) = ret.day_activities

\* the weekly view joined two of three Monday rows
C15_WitnessWeek ==
    /\ IsWeeklyDisplay /\ ret.days[1].shown
    /\ Len(ret.days[1].day_activities) = 3 /\ Len(ret.days[1].day_df) = 2
    /\ \E o \in 1..2 : Len(ret.days[1].day_df[o].Kid) = 2
    /\ MergeWeeklyDay(ret.days[1].day_df) = ret.days[1].day_df

\* the list the merger is given: the day view merges its time-sorted list
MergeInput(run) == IF run.view = "day" THEN DaySort(run.rows) ELSE run.rows

\* the first position of rows with the fields f
FirstAt(run, rows, f) ==
    CHOOSE i \in 1..Len(rows) :
       /\ FieldsOf(run, rows[i]) = f
       /\ \A j \in 1..(i - 1) : FieldsOf(run, rows[j]) # f

\* C16: the merged rows stand in the order in which their fields are first
\* seen in the list that was merged
C16_FirstSeenOrder ==
    \A run \in MergerRuns :
       \A a, b \in 1..Len(run.merged) :
          (a < b /\ FieldsOf(run, run.merged[a]) # FieldsOf(run, run.merged[b])) =>
             FirstAt(run, MergeInput(run), FieldsOf(run, run.merged[a]))
                < FirstAt(run, MergeInput(run), FieldsOf(run, run.merged[b]))

\* the same, of the day view alone and of the weekly view alone
C16_DayOnly == DayMerged => C16_FirstSeenOrder
C16_WeekOnly == IsWeeklyDisplay => C16_FirstSeenOrder

----------------------------------------------------------------------------
(* The order of the weekly result *)

\* the sort key of a row: weekday ordinal (Monday 0 .. Sunday 6), start time
ChronoKey(row) == <<Weekday(row.g_date)>> \o SubSeq(row.Time, 1, 2)

\* C17: the rows create_weekly_schedule returns for a Monday-to-Sunday week
\* are sorted by weekday ordinal and then by start time
C17_SortedByWeekday ==
    MondayWeek =>
       \A a, b \in 1..Len(ret.rows) :
          a < b => TupleLessEq(ChronoKey(ret.rows[a]), ChronoKey(ret.rows[b]))

----------------------------------------------------------------------------
(* The two views *)

\* the day view of date d, called in the state the weekly call started from
DayViewOf(d) == display_day_activities(df, d, ret.cache0, ret.ts0, school_file)

\* the day view holds record i with the start-end time t, before merging
DayHolds(day, i, t) ==
    /\ ~day.raised
    /\ \E k \in 1..Len(day.emitted) : day.emitted[k].g_idx = i /\ day.emitted[k].time = t

WeeklyHolds(i, d, t) ==
    \E k \in 1..Len(ret.rows) :
       ret.rows[k].g_idx = i /\ ret.rows[k].g_date = d /\ ret.rows[k].Time = t

\* the start-end times either view gives record i on date d
TimesOf(day, i, d) ==
    {ret.rows[k].Time : k \in {j \in 1..Len(ret.rows) :
                                  ret.rows[j].g_idx = i /\ ret.rows[j].g_date = d}}
    \cup {day.emitted[k].time : k \in {j \in 1..Len(day.emitted) : day.emitted[j].g_idx = i}}

ViewsAgreeOn(day, d) ==
    \A i \in 1..Len(df) :
       \A t \in TimesOf(day, i, d) : WeeklyHolds(i, d, t) <=> DayHolds(day, i, t)

\* C18: over a Monday-to-Sunday week the weekly result holds record i on a
\* date with a start-end time exactly when the day view of that date holds
\* record i with that start-end time
C18_ViewsAgree ==
    MondayWeek => \A d \in ret.week_start .. ret.week_end : ViewsAgreeOn(DayViewOf(d), d)

----------------------------------------------------------------------------
(* The combined table *)

IsCombine == ret.op = "load_combined_data_for_display"

\* the three collections that are combined: the rows of the sheet, the rows
\* of the school file that match no ignored pattern, the rows of the holiday file
ManualRows == ret.sheet.rows

IsIgnored(name) ==
    /\ ret.ignored_activities # NoSuchKey
    /\ \E p \in 1..Len(ret.ignored_activities) :
          <<Lower(name), Lower(ret.ignored_activities[p])>> \in Contains

SchoolRows ==
    IF school_file.state = "ok"
    THEN SelectSeq(school_file.events, LAMBDA row : ~IsIgnored(row.activity))
    ELSE << >>

HolidayRows == IF ret.holidays.state = "ok" THEN ret.holidays.rows ELSE << >>

\* out is the record orig of a source: every field orig has is kept, but for
\* a legacy prefix cut from the name
Retained(orig, out) ==
    /\ \A col \in DOMAIN orig \ {"activity"} : out[col] = orig[col]
    /\ out.activity = orig.activity \/ out.activity = DropEight(orig.activity)

\* combined is the three collections one behind the other
Concatenated(combined, manual, school, holiday) ==
    /\ Len(combined) = Len(manual) + Len(school) + Len(holiday)
    /\ \A k \in 1..Len(manual) : Retained(manual[k], combined[k])
    /\ \A k \in 1..Len(school) : Retained(school[k], combined[Len(manual) + k])
    /\ \A k \in 1..Len(holiday) :
          Retained(holiday[k], combined[Len(manual) + Len(school) + k])

\* C19 as stated: whenever the sheet is read, the combined table is the
\* manual records, then the school records left after the ignore filter, then
\* the holiday records, each kept and in its order
C19_SumOfThree ==
    (IsCombine /\ ret.sheet.state = "ok") =>
       Concatenated(ret.result.combined_df, ManualRows, SchoolRows, HolidayRows)

\* C19 amended: whenever the sheet is read and holds at least one record, the
\* combined table is the manual records, then the school records left after
\* the ignore filter, then the holiday records, each kept and in its order;
\* a sheet without records gives a combined table without records
C19_NonEmptySheet ==
    (IsCombine /\ ret.sheet.state = "ok") =>
       IF ManualRows # << >>
       THEN /\ ~ret.result.failed
            /\ Concatenated(ret.result.combined_df, ManualRows, SchoolRows, HolidayRows)
       ELSE ret.result.failed /\ ret.result.combined_df = << >>

\* a manual 'Picture Day' and the school event 'Picture Day' are both kept,
\* between them the school events, behind them the holidays
C19_Witness ==
    /\ IsCombine /\ ~ret.result.failed
    /\ Len(ManualRows) = 2 /\ ManualRows[2].activity = "Picture Day"
    /\ Len(SchoolRows) = 4 /\ SchoolRows[4].activity = "Picture Day"
    /\ Len(HolidayRows) = 2
    /\ Len(ret.result.combined_df) = 8
    /\ ret.result.combined_df[2].activity = "Picture Day"
    /\ ret.result.combined_df[6].activity = "Picture Day"
    /\ ret.result.combined_df[6].calendar_source = "School"

\* the ignore filter took the school event 'Picture Day' out
C19_WitnessIgnored ==
    /\ IsCombine /\ ~ret.result.failed
    /\ Len(school_file.events) = 4 /\ Len(SchoolRows) = 3
    /\ Len(ret.result.combined_df) = Len(ManualRows) + 3 + Len(HolidayRows)

\* C20: after the combination no name begins with 'School: ' or 'Jewish: '
\* in any letter case
LegacyPrefixed(name) ==
    \/ <<Lower(name), "school: ">> \in StartsWith
    \/ <<Lower(name), "jewish: ">> \in StartsWith

C20_NoLegacyPrefix ==
    IsCombine =>
       \A k \in 1..Len(ret.result.combined_df) :
          ~LegacyPrefixed(ret.result.combined_df[k].activity)

\* the source a record of a list is to get: its own tag when it has one, else
\* the source its legacy prefix names, else the source of its list
Untagged(orig) ==
    "calendar_source" \notin DOMAIN orig \/ orig.calendar_source = NoneVal

ExpectedSource(orig, list_source) ==
    IF ~Untagged(orig) THEN orig.calendar_source
    ELSE IF <<orig.activity, "School: ">> \in StartsWith THEN "School"
    ELSE IF <<orig.activity, "Jewish: ">> \in StartsWith THEN "Jewish"
    ELSE list_source

\* C21: in the combined table a record without a tag has the source its
\* legacy prefix names, whichever list it came from, and without a prefix the
\* source of its list
C21_SourceInferred ==
    (IsCombine /\ ~ret.result.failed) =>
       /\ \A k \in 1..Len(ManualRows) :
             ret.result.combined_df[k].calendar_source
                = ExpectedSource(ManualRows[k], "Family")
       /\ \A k \in 1..Len(SchoolRows) :
             ret.result.combined_df[Len(ManualRows) + k].calendar_source
                = ExpectedSource(SchoolRows[k], "School")
       /\ \A k \in 1..Len(HolidayRows) :
             ret.result.combined_df[Len(ManualRows) + Len(SchoolRows) + k].calendar_source
                = ExpectedSource(HolidayRows[k], "Jewish")

\* the same, of the records without a legacy prefix alone
C21_ListSourceOnly ==
    (IsCombine /\ ~ret.result.failed) =>
       /\ \A k \in 1..Len(ManualRows) :
             ~PrefixMask(ManualRows[k].activity) =>
                ret.result.combined_df[k].calendar_source
                   = ExpectedSource(ManualRows[k], "Family")
       /\ \A k \in 1..Len(SchoolRows) :
             ret.result.combined_df[Len(ManualRows) + k].calendar_source = "School"
       /\ \A k \in 1..Len(HolidayRows) :
             ~PrefixMask(HolidayRows[k].activity) =>
                ret.result.combined_df[Len(ManualRows) + Len(SchoolRows) + k].calendar_source
                   = "Jewish"

----------------------------------------------------------------------------
(* The cache of the school events *)

IsLoad == ret.op = "_load_school_events_cached"

\* what the file holds now: its events, nothing when it is gone or unreadable
CurrentTable == IF school_file.state = "ok" THEN school_file.events ELSE << >>

\* the access found a cached table whose timestamp is the mtime of the file
Fresh ==
    /\ ret.cache0.some /\ ret.ts0 # NoTimestamp
    /\ school_file.state # "absent" /\ school_file.mtime = ret.ts0

\* C22: an access made while the file's mtime equals the cached timestamp
\* returns the cached table and leaves the cache; an access made after the
\* mtime changed reads the file and, when it can be read, stores its table and
\* its mtime; every access returns the table the file holds now
C22_LazyInvalidation ==
    IsLoad =>
       /\ Fresh =>
             /\ ret.df = ret.cache0.df
             /\ school_events_cache = ret.cache0
             /\ school_events_cache_timestamp = ret.ts0
       /\ (~Fresh /\ school_file.state = "ok") =>
             /\ school_events_cache = [some |-> TRUE, df |-> school_file.events]
             /\ school_events_cache_timestamp = school_file.mtime
       /\ (~Fresh /\ school_file.state # "ok") =>
             /\ school_events_cache = ret.cache0
             /\ school_events_cache_timestamp = ret.ts0
       /\ ret.df = CurrentTable

\* the second version of the file is read over the cached first one
C22_Witness ==
    /\ IsLoad
    /\ ret.cache0 = [some |-> TRUE, df |-> EventsA] /\ ret.ts0 = 1
    /\ school_file.state = "ok" /\ school_file.mtime = 2
    /\ ret.df = EventsB
    /\ school_events_cache.df = EventsB /\ school_events_cache_timestamp = 2

\* an access served from the cache
C22_WitnessFresh ==
    /\ IsLoad /\ Fresh
    /\ ret.df = EventsB /\ school_file.events = EventsB

----------------------------------------------------------------------------
(* Ranges that end before they start *)

\* C23: a pass over a range whose start is after its end returns no rows,
\* whatever the table holds
C23_EmptyOnInvertedRange ==
    (IsWeekly /\ ret.week_start > ret.week_end) => ret.rows = << >>

----------------------------------------------------------------------------
(* An input that is not a table *)

\* C24: when the whole input is not a table of records, the pass raises to its
\* caller instead of returning a result
C24_SystemicRaised ==
    (IsWeekly /\ df = NoTable) => ret.raised

----------------------------------------------------------------------------
(* The day labels *)

\* the labels the weekdays are to carry, Monday first
DayLabels == <<"M", "T", "W", "Th", "F", "S", "Su">>

\* the pass was made over a week from Monday to Sunday, as get_week_dates gives
IsMondayWeek ==
    IsWeekly /\ Weekday(ret.week_start) = 0 /\ ret.week_end = ret.week_start + 6

\* C25: a row of a Monday to Sunday week carries the label of its weekday out
\* of M, T, W, Th, F, S, Su, rows of different weekdays carry different labels,
\* and the rows picked by the label of a date all fall on that date's weekday
C25_LabelPerWeekday ==
    IsMondayWeek =>
       /\ \A k \in 1..Len(ret.rows) :
             ret.rows[k].Day = DayLabels[Weekday(ret.rows[k].g_date) + 1]
       /\ \A k, l \in 1..Len(ret.rows) :
             Weekday(ret.rows[k].g_date) # Weekday(ret.rows[l].g_date)
                => ret.rows[k].Day # ret.rows[l].Day
       /\ \A today \in ret.week_start .. (ret.week_start + 6) :
             LET picked == TodayActivities(ret.rows, today)
             IN  \A k \in 1..Len(picked) : Weekday(picked[k].g_date) = Weekday(today)

\* the labels of Monday to Saturday alone
C25_WorkdayLabels ==
    IsMondayWeek =>
       \A k \in 1..Len(ret.rows) :
          Weekday(ret.rows[k].g_date) # 6
             => ret.rows[k].Day = DayLabels[Weekday(ret.rows[k].g_date) + 1]

----------------------------------------------------------------------------
(* What a pass leaves alone *)

\* the rows a display was given are, after it, the rows materialized from the
\* records: one participant each, the one of the record
GivenRowsKept ==
    /\ IsWeeklyDisplay =>
          \A i \in 1..7 :
             /\ ret.days[i].day_activities =
                   SelectSeq(ret.weekly_schedule, LAMBDA row : row.Day = DAYS_ORDER[i])
             /\ \A k \in 1..Len(ret.days[i].day_activities) :
                   ret.days[i].day_activities[k].Kid =
                      <<FirstUpper(df[ret.days[i].day_activities[k].g_idx].kid_name)>>
    /\ DayMerged =>
          \A k \in 1..Len(ret.emitted) :
             ret.emitted[k].kid = <<df[ret.emitted[k].g_idx].kid_name>>

----------------------------------------------------------------------------
(* End times within the day *)

\* C27: the end time computed for an occurrence is not earlier than its start
\* time, for any start time, any duration under 24 hours and any early release
C27_EndNotBeforeStart ==
    (IsEndTime /\ ~ret.raised) =>
        TupleLessEq(NormTime(df[ret.idx].time), ret.end_time)

\* the same for activities that the early release does not apply to
C27_NoWrapWithoutOverride ==
    (IsEndTime /\ ~ret.raised /\ ~IsSchoolActivity(df[ret.idx])) =>
        TupleLessEq(NormTime(df[ret.idx].time), ret.end_time)

\* the same for records whose start plus duration stays within the day
C27_OverrideNotBeforeStart ==
    (/\ IsEndTime /\ ~ret.raised
     /\ NormTime(df[ret.idx].time)[1] * 60 + NormTime(df[ret.idx].time)[2]
           + DurationMinutes(df[ret.idx].duration) < 1440) =>
        TupleLessEq(NormTime(df[ret.idx].time), ret.end_time)

----------------------------------------------------------------------------
(* One-time records *)

\* the dates of the model on which the record is shown on its own weekday
ShownDates(activity) ==
    {d \in Dates : should_show_activity_on_date(activity, d, NoneVal) = "True"}

\* C28: a one-time record is shown on at most one date, whatever its validity
\* span and whichever weeks are materialized
C28_OneTimeOnce ==
    (/\ IsShouldShow
     /\ df[ret.idx].frequency = "one-time"
     /\ ret.result = "True" /\ ret.day_name = NoneVal) =>
        ShownDates(df[ret.idx]) = {ret.target_date}

\* the same for a one-time record whose validity span is a single day
C28_OneDaySpanOnce ==
    (/\ IsShouldShow
     /\ df[ret.idx].frequency = "one-time"
     /\ df[ret.idx].start_date = df[ret.idx].end_date
     /\ ret.result = "True" /\ ret.day_name = NoneVal) =>
        ShownDates(df[ret.idx]) = {ret.target_date}

----------------------------------------------------------------------------
(* The cache beside a writer *)

\* the cached timestamp is the mtime of the file as it is now
StampCurrent ==
    /\ school_events_cache.some /\ school_events_cache_timestamp # NoTimestamp
    /\ school_file.state = "ok"
    /\ school_events_cache_timestamp = school_file.mtime

\* C29: with a writer that may rewrite the file between any two steps of the
\* loader, whenever the cached timestamp equals the file's current mtime the
\* cached table is the content of that version of the file
C29_CacheCoherent ==
    StampCurrent => school_events_cache.df = school_file.events

\* what follows for the caller: an access answered from the cache returns the
\* table the file holds
C29_FreshAccessCurrent ==
    (IsLoad /\ StampCurrent /\ ret.cache0 = school_events_cache
            /\ ret.ts0 = school_events_cache_timestamp) =>
        ret.df = school_file.events

----------------------------------------------------------------------------
(* The hours of a week *)

IsHours == ret.op = "calculate_hours_by_day"

\* the records whose hours count for the kid
CountedFor(kid_name) ==
    {i \in 1..Len(df) : df[i].kid_name = kid_name /\ Lower(df[i].activity) # "school"}

\* the entries of the day list of record i that name the day and on which the
\* record is shown on that day of the week
ShownEntries(i, day, week_start) ==
    {j \in 1..Len(DaysList(df[i])) :
        /\ IsStr(DaysList(df[i])[j]) /\ Lower(DaysList(df[i])[j]) = day
        /\ should_show_activity_on_date(df[i], week_start + DayIndex(day), day) = "True"}

RECURSIVE SumHours(_, _, _)
SumHours(S, day, week_start) ==
    IF S = {} THEN 0
    ELSE LET i == CHOOSE x \in S : TRUE
         IN  Cardinality(ShownEntries(i, day, week_start)) * df[i].duration.hundredths
             + SumHours(S \ {i}, day, week_start)

\* C30: the hours reported for a kid, a week and a weekday are the sum of the
\* durations of the kid's occurrences, those named school left out, that are
\* shown on that weekday of that week
C30_HoursOfShownOccurrences ==
    (IsHours /\ ~ret.result.raised) =>
        \A day \in SeqRange(DAY_NAMES) :
           ret.result.daily_hours[day] = SumHours(CountedFor(ret.kid_name), day, ret.week_start)

\* the same for weekly records that are valid during the whole week
C30_WholeWeekWeekly ==
    (/\ IsHours /\ ~ret.result.raised
     /\ \A i \in CountedFor(ret.kid_name) :
           /\ df[i].frequency = "weekly"
           /\ df[i].start_date <= ret.week_start /\ df[i].end_date >= ret.week_end) =>
        \A day \in SeqRange(DAY_NAMES) :
           ret.result.daily_hours[day] = SumHours(CountedFor(ret.kid_name), day, ret.week_start)

============================================================================
